---------------------------- MODULE Spec2Model ----------------------------
(***************************************************************************)
(* A model of the byte-slice MessagePack reader of msgp (read_bytes.go).   *)
(*                                                                         *)
(* A byte slice is a sequence of naturals 0..255; Go's b[i] is b[i+1]      *)
(* here, b[n:] is Drop(b, n) and b[:n] is Take(b, n).  A nil slice is the  *)
(* empty sequence (Go's len, index and range cannot tell them apart).      *)
(*                                                                         *)
(* Fixed-width integers are kept at their width as big-endian byte         *)
(* sequences: an int64 is 8 bytes in two's complement, a uint64 8 bytes    *)
(* unsigned, an int8 one byte, and so on.  Conversions and comparisons     *)
(* are done on these bit patterns, as the machine does them.               *)
(***************************************************************************)
EXTENDS Integers, Sequences, FiniteSets, TLC

VARIABLES
    buf,     \* the byte slice handed to the next call (the remaining input)
    b0,      \* the byte slice the run started with
    objs,    \* the objects the input was built from (<<>> for a raw byte input)
    call,    \* the last call: <<operation, [v, o, err]>>, the operation's name
             \* ("init" before the first call) and what it returned
    calls,   \* the number of Skip calls made on this input so far
    r,       \* the Raw receiver: [arr: its backing array, len: its length]
    into,    \* the destination slice handed to ReadExactBytes or MarshalMsg
    frames,  \* the loops of the Skip calls in progress: the asz left of each
    elem,    \* the element tree handed to the size generator
    gen      \* the size generator: [p: its printer, state: its SizeState, trace]

vars == <<buf, b0, objs, call, calls, r, into, frames, elem, gen>>

op == call[1]
ret == call[2]

----------------------------------------------------------------------------
(* Slices *)

Drop(b, n) == SubSeq(b, n + 1, Len(b))
Take(b, n) == SubSeq(b, 1, n)
At(b, i) == b[i + 1]
Nil == <<>>
Min(x, y) == IF x < y THEN x ELSE y
Zeros(n) == [i \in 1..n |-> 0]

RECURSIVE Concat(_)
Concat(ss) == IF ss = <<>> THEN <<>> ELSE Head(ss) \o Concat(Tail(ss))

----------------------------------------------------------------------------
(* The wire's lead bytes (defs.go) *)

mnil == 192        \* 0xc0
mfalse == 194      \* 0xc2
mtrue == 195       \* 0xc3
mbin8 == 196       \* 0xc4
mbin16 == 197      \* 0xc5
mbin32 == 198      \* 0xc6
mext8 == 199       \* 0xc7
mext16 == 200      \* 0xc8
mext32 == 201      \* 0xc9
mfloat32 == 202    \* 0xca
mfloat64 == 203    \* 0xcb
muint8 == 204      \* 0xcc
muint16 == 205     \* 0xcd
muint32 == 206     \* 0xce
muint64 == 207     \* 0xcf
mint8 == 208       \* 0xd0
mint16 == 209      \* 0xd1
mint32 == 210      \* 0xd2
mint64 == 211      \* 0xd3
mfixext1 == 212    \* 0xd4
mfixext2 == 213    \* 0xd5
mfixext4 == 214    \* 0xd6
mfixext8 == 215    \* 0xd7
mfixext16 == 216   \* 0xd8
mstr8 == 217       \* 0xd9
mstr16 == 218      \* 0xda
mstr32 == 219      \* 0xdb
marray16 == 220    \* 0xdc
marray32 == 221    \* 0xdd
mmap16 == 222      \* 0xde
mmap32 == 223      \* 0xdf
mfixmap == 128     \* 0x80
mfixarray == 144   \* 0x90
mfixstr == 160     \* 0xa0
mnfixint == 224    \* 0xe0

isfixint(lead) == lead < 128
isnfixint(lead) == lead >= mnfixint
isfixmap(lead) == lead >= mfixmap /\ lead < mfixarray
isfixarray(lead) == lead >= mfixarray /\ lead < mfixstr
isfixstr(lead) == lead >= mfixstr /\ lead < mnil
rfixint(lead) == lead
rfixmap(lead) == lead - mfixmap
rfixarray(lead) == lead - mfixarray
rfixstr(lead) == lead - mfixstr

(* The extension type tags the library reserves. *)
Complex64Extension == 3
Complex128Extension == 4
TimeExtension == 5

(* varmode: how the size of an object follows from its lead byte. *)
constsize == 0
extra8 == -1
extra16 == -2
extra32 == -3
map16v == -4
map32v == -5
array16v == -6
array32v == -7

bytespec(size, extra, typ) == [size |-> size, extra |-> extra, typ |-> typ]

(* sizes[lead]: the 256-entry prefix table.  size is the number of bytes  *)
(* of the prefix (of the whole object when extra = constsize); a           *)
(* non-negative extra is the number of objects that follow a fixed         *)
(* composite.  size = 0 marks an unmapped lead byte.                       *)
sizes(lead) ==
    CASE isfixint(lead) -> bytespec(1, constsize, "IntType")
      [] isfixmap(lead) -> bytespec(1, 2 * rfixmap(lead), "MapType")
      [] isfixarray(lead) -> bytespec(1, rfixarray(lead), "ArrayType")
      [] isfixstr(lead) -> bytespec(1 + rfixstr(lead), constsize, "StrType")
      [] isnfixint(lead) -> bytespec(1, constsize, "IntType")
      [] lead = mnil -> bytespec(1, constsize, "NilType")
      [] lead = mfalse -> bytespec(1, constsize, "BoolType")
      [] lead = mtrue -> bytespec(1, constsize, "BoolType")
      [] lead = mbin8 -> bytespec(2, extra8, "BinType")
      [] lead = mbin16 -> bytespec(3, extra16, "BinType")
      [] lead = mbin32 -> bytespec(5, extra32, "BinType")
      [] lead = mext8 -> bytespec(3, extra8, "ExtensionType")
      [] lead = mext16 -> bytespec(4, extra16, "ExtensionType")
      [] lead = mext32 -> bytespec(6, extra32, "ExtensionType")
      [] lead = mfloat32 -> bytespec(5, constsize, "Float32Type")
      [] lead = mfloat64 -> bytespec(9, constsize, "Float64Type")
      [] lead = muint8 -> bytespec(2, constsize, "UintType")
      [] lead = muint16 -> bytespec(3, constsize, "UintType")
      [] lead = muint32 -> bytespec(5, constsize, "UintType")
      [] lead = muint64 -> bytespec(9, constsize, "UintType")
      [] lead = mint8 -> bytespec(2, constsize, "IntType")
      [] lead = mint16 -> bytespec(3, constsize, "IntType")
      [] lead = mint32 -> bytespec(5, constsize, "IntType")
      [] lead = mint64 -> bytespec(9, constsize, "IntType")
      [] lead = mfixext1 -> bytespec(3, constsize, "ExtensionType")
      [] lead = mfixext2 -> bytespec(4, constsize, "ExtensionType")
      [] lead = mfixext4 -> bytespec(6, constsize, "ExtensionType")
      [] lead = mfixext8 -> bytespec(10, constsize, "ExtensionType")
      [] lead = mfixext16 -> bytespec(18, constsize, "ExtensionType")
      [] lead = mstr8 -> bytespec(2, extra8, "StrType")
      [] lead = mstr16 -> bytespec(3, extra16, "StrType")
      [] lead = mstr32 -> bytespec(5, extra32, "StrType")
      [] lead = marray16 -> bytespec(3, array16v, "ArrayType")
      [] lead = marray32 -> bytespec(5, array32v, "ArrayType")
      [] lead = mmap16 -> bytespec(3, map16v, "MapType")
      [] lead = mmap32 -> bytespec(5, map32v, "MapType")
      [] OTHER -> bytespec(0, constsize, "InvalidType")

getType(lead) == sizes(lead).typ

----------------------------------------------------------------------------
(* Errors: a record naming the error's kind and carrying the fields of    *)
(* the Go error value; ErrNone is Go's nil error.                          *)

ErrNone == [kind |-> "nil"]
ErrShortBytes == [kind |-> "ErrShortBytes"]
fatal == [kind |-> "fatal"]
TypeError(method, encoded) == [kind |-> "TypeError", Method |-> method, Encoded |-> encoded]
InvalidPrefixError(lead) == [kind |-> "InvalidPrefixError", lead |-> lead]
IntOverflow(value, bits) == [kind |-> "IntOverflow", Value |-> value, FailedBitsize |-> bits]
UintOverflow(value, bits) == [kind |-> "UintOverflow", Value |-> value, FailedBitsize |-> bits]
ArrayError(wanted, got) == [kind |-> "ArrayError", Wanted |-> wanted, Got |-> got]
ExtensionTypeError(got, want) == [kind |-> "ExtensionTypeError", Got |-> got, Want |-> want]

badPrefix(want, lead) ==
    LET t == sizes(lead).typ
    IN  IF t = "InvalidType" THEN InvalidPrefixError(lead) ELSE TypeError(want, t)

(* A call's results: the value, the remaining bytes, the error. *)
Ret(v, o, err) == [v |-> v, o |-> o, err |-> err]
Ok(x) == x.err.kind = "nil"
Failed(x) == x.err.kind # "nil"

----------------------------------------------------------------------------
(* Fixed-width integers as big-endian byte sequences *)

IsNeg(x) == x[1] >= 128
SignExtend(x, w) == [i \in 1..(w - Len(x)) |-> IF IsNeg(x) THEN 255 ELSE 0] \o x
ZeroExtend(x, w) == Zeros(w - Len(x)) \o x
Truncate(x, w) == SubSeq(x, Len(x) - w + 1, Len(x))

(* x < y for two unsigned integers of one width *)
ULess(x, y) ==
    \E i \in 1..Len(x) : x[i] < y[i] /\ \A j \in 1..(i - 1) : x[j] = y[j]
(* x < y for two signed integers of one width: the sign bit weighs negative *)
Bias(x) == [x EXCEPT ![1] = (x[1] + 128) % 256]
SLess(x, y) == ULess(Bias(x), Bias(y))

(* big.Uint16 / big.Uint32 of the bytes at b[0:], as a number *)
bigUint16(b) == At(b, 0) * 256 + At(b, 1)
bigUint32(b) == ((At(b, 0) * 256 + At(b, 1)) * 256 + At(b, 2)) * 256 + At(b, 3)

(* getMint8 .. getMuint64: the integer after the lead byte of b *)
getMint8(b) == SubSeq(b, 2, 2)
getMint16(b) == SubSeq(b, 2, 3)
getMint32(b) == SubSeq(b, 2, 5)
getMint64(b) == SubSeq(b, 2, 9)
getMuint8(b) == SubSeq(b, 2, 2)
getMuint16(b) == SubSeq(b, 2, 3)
getMuint32(b) == SubSeq(b, 2, 5)
getMuint64(b) == SubSeq(b, 2, 9)
rnfixint(lead) == <<lead>>

(* int64(x) of a signed x, and of an unsigned x narrower than 64 bits *)
int64s(x) == SignExtend(x, 8)
int64u(x) == ZeroExtend(x, 8)
uint64u(x) == ZeroExtend(x, 8)

MaxInt64 == <<127, 255, 255, 255, 255, 255, 255, 255>>
MaxInt32 == <<0, 0, 0, 0, 127, 255, 255, 255>>
MinInt32 == <<255, 255, 255, 255, 128, 0, 0, 0>>
MaxInt16 == <<0, 0, 0, 0, 0, 0, 127, 255>>
MinInt16 == <<255, 255, 255, 255, 255, 255, 128, 0>>
MaxInt8 == <<0, 0, 0, 0, 0, 0, 0, 127>>
MinInt8 == <<255, 255, 255, 255, 255, 255, 255, 128>>
MaxUint32 == <<0, 0, 0, 0, 255, 255, 255, 255>>
MaxUint16 == <<0, 0, 0, 0, 0, 0, 255, 255>>
MaxUint8 == <<0, 0, 0, 0, 0, 0, 0, 255>>

----------------------------------------------------------------------------
(* Scalar readers *)

ReadNilBytes(b) ==
    IF Len(b) < 1 THEN Ret(Nil, Nil, ErrShortBytes)
    ELSE IF At(b, 0) # mnil THEN Ret(Nil, b, badPrefix("NilType", At(b, 0)))
    ELSE Ret(Nil, Drop(b, 1), ErrNone)

ReadBoolBytes(b) ==
    IF Len(b) < 1 THEN Ret(FALSE, b, ErrShortBytes)
    ELSE CASE At(b, 0) = mtrue -> Ret(TRUE, Drop(b, 1), ErrNone)
           [] At(b, 0) = mfalse -> Ret(FALSE, Drop(b, 1), ErrNone)
           [] OTHER -> Ret(FALSE, b, badPrefix("BoolType", At(b, 0)))

ReadInt64Bytes(b) ==
    LET l == Len(b)
        lead == At(b, 0)
    IN  IF l < 1 THEN Ret(Zeros(8), Nil, ErrShortBytes)
        ELSE IF isfixint(lead) THEN Ret(int64u(<<rfixint(lead)>>), Drop(b, 1), ErrNone)
        ELSE IF isnfixint(lead) THEN Ret(int64s(rnfixint(lead)), Drop(b, 1), ErrNone)
        ELSE CASE lead \in {mint8, muint8} ->
                    IF l < 2 THEN Ret(Zeros(8), b, ErrShortBytes)
                    ELSE IF lead = mint8
                         THEN Ret(int64s(getMint8(b)), Drop(b, 2), ErrNone)
                         ELSE Ret(int64u(getMuint8(b)), Drop(b, 2), ErrNone)
               [] lead \in {mint16, muint16} ->
                    IF l < 3 THEN Ret(Zeros(8), b, ErrShortBytes)
                    ELSE IF lead = mint16
                         THEN Ret(int64s(getMint16(b)), Drop(b, 3), ErrNone)
                         ELSE Ret(int64u(getMuint16(b)), Drop(b, 3), ErrNone)
               [] lead \in {mint32, muint32} ->
                    IF l < 5 THEN Ret(Zeros(8), b, ErrShortBytes)
                    ELSE IF lead = mint32
                         THEN Ret(int64s(getMint32(b)), Drop(b, 5), ErrNone)
                         ELSE Ret(int64s(getMint32(b)), Drop(b, 5), ErrNone)
               [] lead \in {mint64, muint64} ->
                    IF l < 9 THEN Ret(Zeros(8), b, ErrShortBytes)
                    ELSE IF lead = mint64
                         THEN Ret(getMint64(b), Drop(b, 9), ErrNone)
                         ELSE LET num == getMuint64(b)
                              IN  IF ULess(MaxInt64, num)
                                  THEN Ret(Zeros(8), b, UintOverflow(num, 64))
                                  ELSE Ret(num, Drop(b, 9), ErrNone)
               [] OTHER -> Ret(Zeros(8), b, badPrefix("IntType", lead))

ReadInt32Bytes(b) ==
    LET x == ReadInt64Bytes(b)
    IN  IF SLess(MaxInt32, x.v) \/ SLess(x.v, MinInt32)
        THEN Ret(Zeros(4), x.o, IntOverflow(x.v, 32))
        ELSE Ret(Truncate(x.v, 4), x.o, x.err)

ReadInt16Bytes(b) ==
    LET x == ReadInt64Bytes(b)
    IN  IF SLess(MaxInt16, x.v) \/ SLess(x.v, MinInt16)
        THEN Ret(Zeros(2), x.o, IntOverflow(x.v, 16))
        ELSE Ret(Truncate(x.v, 2), x.o, x.err)

ReadInt8Bytes(b) ==
    LET x == ReadInt64Bytes(b)
    IN  IF SLess(MaxInt8, x.v) \/ SLess(x.v, MinInt8)
        THEN Ret(Zeros(1), x.o, IntOverflow(x.v, 8))
        ELSE Ret(Truncate(x.v, 1), x.o, x.err)

ReadUint64Bytes(b) ==
    LET l == Len(b)
        lead == At(b, 0)
    IN  IF l < 1 THEN Ret(Zeros(8), Nil, ErrShortBytes)
        ELSE IF isfixint(lead) THEN Ret(uint64u(<<rfixint(lead)>>), Drop(b, 1), ErrNone)
        ELSE CASE lead = muint8 ->
                    IF l < 2 THEN Ret(Zeros(8), Nil, ErrShortBytes)
                    ELSE Ret(uint64u(getMuint8(b)), Drop(b, 2), ErrNone)
               [] lead = muint16 ->
                    IF l < 3 THEN Ret(Zeros(8), Nil, ErrShortBytes)
                    ELSE Ret(uint64u(getMuint16(b)), Drop(b, 3), ErrNone)
               [] lead = muint32 ->
                    IF l < 5 THEN Ret(Zeros(8), Nil, ErrShortBytes)
                    ELSE Ret(uint64u(getMuint32(b)), Drop(b, 5), ErrNone)
               [] lead = muint64 ->
                    IF l < 9 THEN Ret(Zeros(8), Nil, ErrShortBytes)
                    ELSE Ret(getMuint64(b), Drop(b, 9), ErrNone)
               [] OTHER -> Ret(Zeros(8), Nil, badPrefix("UintType", lead))

ReadUint32Bytes(b) ==
    LET x == ReadUint64Bytes(b)
    IN  IF ULess(MaxUint32, x.v)
        THEN Ret(Zeros(4), Nil, UintOverflow(x.v, 32))
        ELSE Ret(Truncate(x.v, 4), x.o, x.err)

ReadUint16Bytes(b) ==
    LET x == ReadUint64Bytes(b)
    IN  IF ULess(MaxUint16, x.v)
        THEN Ret(Zeros(2), Nil, UintOverflow(x.v, 16))
        ELSE Ret(Truncate(x.v, 2), x.o, x.err)

ReadUint8Bytes(b) ==
    LET x == ReadUint64Bytes(b)
    IN  IF ULess(MaxUint8, x.v)
        THEN Ret(Zeros(1), Nil, UintOverflow(x.v, 8))
        ELSE Ret(Truncate(x.v, 1), x.o, x.err)

----------------------------------------------------------------------------
(* str and bin readers *)

(* ReadStringZC: hdr is the number of bytes b = b[hdr:] drops, read the    *)
(* declared length; hdr = 0 stands for the early error returns.            *)
StrHeader(b) ==
    LET l == Len(b)
        lead == At(b, 0)
    IN  IF isfixstr(lead) THEN [hdr |-> 1, read |-> rfixstr(lead), err |-> ErrNone]
        ELSE CASE lead = mstr8 ->
                    IF l < 2 THEN [hdr |-> 0, read |-> 0, err |-> ErrShortBytes]
                    ELSE [hdr |-> 2, read |-> At(b, 1), err |-> ErrNone]
               [] lead = mstr16 ->
                    IF l < 3 THEN [hdr |-> 0, read |-> 0, err |-> ErrShortBytes]
                    ELSE [hdr |-> 3, read |-> bigUint16(Drop(b, 1)), err |-> ErrNone]
               [] lead = mstr32 ->
                    IF l < 5 THEN [hdr |-> 0, read |-> 0, err |-> ErrShortBytes]
                    ELSE [hdr |-> 5, read |-> bigUint32(Drop(b, 1)), err |-> ErrNone]
               [] OTHER ->
                    [hdr |-> 0, read |-> 0, err |-> TypeError("StrType", getType(lead))]

(* The length check left out: a payload cut short comes back shortened. *)
ReadStringZCUnchecked(b) ==
    IF Len(b) < 1 THEN Ret(Nil, Nil, ErrShortBytes)
    ELSE LET h == StrHeader(b)
             bb == Drop(b, h.hdr)
         IN  IF h.err.kind # "nil" THEN Ret(Nil, Nil, h.err)
             ELSE Ret(Take(bb, Min(h.read, Len(bb))), Drop(bb, Min(h.read, Len(bb))), ErrNone)

ReadStringZC(b) ==
    IF Len(b) < 1 THEN Ret(Nil, Nil, ErrShortBytes)
    ELSE LET h == StrHeader(b)
             bb == Drop(b, h.hdr)
         IN  IF h.err.kind # "nil" THEN Ret(Nil, Nil, h.err)
             ELSE IF Len(bb) < h.read THEN Ret(Nil, Nil, ErrShortBytes)
             ELSE Ret(Take(bb, h.read), Drop(bb, h.read), ErrNone)

ReadStringBytes(b) == ReadStringZC(b)

BinHeader(b) ==
    LET l == Len(b)
        lead == At(b, 0)
    IN  CASE lead = mbin8 ->
                IF l < 2 THEN [hdr |-> 0, read |-> 0, err |-> ErrShortBytes]
                ELSE [hdr |-> 2, read |-> At(b, 1), err |-> ErrNone]
          [] lead = mbin16 ->
                IF l < 3 THEN [hdr |-> 0, read |-> 0, err |-> ErrShortBytes]
                ELSE [hdr |-> 3, read |-> bigUint16(Drop(b, 1)), err |-> ErrNone]
          [] lead = mbin32 ->
                IF l < 5 THEN [hdr |-> 0, read |-> 0, err |-> ErrShortBytes]
                ELSE [hdr |-> 5, read |-> bigUint32(Drop(b, 1)), err |-> ErrNone]
          [] OTHER -> [hdr |-> 0, read |-> 0, err |-> badPrefix("BinType", lead)]

(* scratch is a slice of length 0 whose capacity is Len(scratch); either   *)
(* branch of the copy yields the read bytes of b.                          *)
readBytesBytes(b, scratch, zc) ==
    IF Len(b) < 1 THEN Ret(Nil, Nil, ErrShortBytes)
    ELSE LET h == BinHeader(b)
             bb == Drop(b, h.hdr)
         IN  IF h.err.kind # "nil" THEN Ret(Nil, Nil, h.err)
             ELSE IF Len(bb) < h.read THEN Ret(Nil, Nil, ErrShortBytes)
             ELSE IF zc THEN Ret(Take(bb, h.read), Drop(bb, h.read), ErrNone)
             ELSE LET v == IF Len(scratch) >= h.read
                           THEN Take(bb, h.read) \o Drop(Take(scratch, h.read), h.read)
                           ELSE Take(bb, h.read) \o Drop(Zeros(h.read), h.read)
                  IN  Ret(v, Drop(bb, Min(Len(v), Len(bb))), ErrNone)

ReadBytesBytes(b, scratch) == readBytesBytes(b, scratch, FALSE)
ReadBytesZC(b) == readBytesBytes(b, Nil, TRUE)

(* o, b, err := ReadStringZC(b) assigns the remaining bytes to b itself. *)
ReadMapKeyZC(b) ==
    LET s == ReadStringZC(b)
        bb == s.o
    IN  IF s.err.kind # "nil"
        THEN IF s.err.kind = "TypeError" /\ s.err.Encoded = "BinType"
             THEN ReadBytesZC(bb)
             ELSE Ret(Nil, bb, s.err)
        ELSE Ret(s.v, bb, ErrNone)

(* ReadExactBytes: v is what the call leaves in the caller's slice. *)
ReadExactBytes(b, dst) ==
    IF Len(b) < 1 THEN Ret(dst, Nil, ErrShortBytes)
    ELSE LET h == BinHeader(b)
             skip == h.hdr
             n == Min(Len(dst), Len(b) - skip)
         IN  IF h.err.kind # "nil" THEN Ret(dst, Nil, h.err)
             ELSE IF h.read # Len(dst)
                  THEN Ret(dst, Nil, ArrayError(Len(dst), h.read))
             ELSE Ret(Take(Drop(b, skip), n) \o Drop(dst, n), Drop(b, skip + n), ErrNone)

----------------------------------------------------------------------------
(* Skip *)

Size(sz, asz, err) == [sz |-> sz, asz |-> asz, err |-> err]

(* A map header counts its pairs once: the values are left unskipped. *)
getSizePairsOnce(b) ==
    LET l == Len(b)
        lead == At(b, 0)
        spec == sizes(lead)
        size == spec.size
        mode == spec.extra
    IN  IF l = 0 THEN Size(0, 0, ErrShortBytes)
        ELSE IF size = 0 THEN Size(0, 0, InvalidPrefixError(lead))
        ELSE IF mode >= 0 THEN Size(size, mode, ErrNone)
        ELSE IF l < size THEN Size(0, 0, ErrShortBytes)
        ELSE CASE mode = extra8 -> Size(size + At(b, 1), 0, ErrNone)
               [] mode = extra16 -> Size(size + bigUint16(Drop(b, 1)), 0, ErrNone)
               [] mode = extra32 -> Size(size + bigUint32(Drop(b, 1)), 0, ErrNone)
               [] mode = map16v -> Size(size, bigUint16(Drop(b, 1)), ErrNone)
               [] mode = map32v -> Size(size, bigUint32(Drop(b, 1)), ErrNone)
               [] mode = array16v -> Size(size, bigUint16(Drop(b, 1)), ErrNone)
               [] mode = array32v -> Size(size, bigUint32(Drop(b, 1)), ErrNone)
               [] OTHER -> Size(0, 0, fatal)

(* A one-byte length is taken for the whole size: the header is not added. *)
getSizeLengthOnly(b) ==
    LET l == Len(b)
        lead == At(b, 0)
        spec == sizes(lead)
        size == spec.size
        mode == spec.extra
    IN  IF l = 0 THEN Size(0, 0, ErrShortBytes)
        ELSE IF size = 0 THEN Size(0, 0, InvalidPrefixError(lead))
        ELSE IF mode >= 0 THEN Size(size, mode, ErrNone)
        ELSE IF l < size THEN Size(0, 0, ErrShortBytes)
        ELSE CASE mode = extra8 -> Size(At(b, 1), 0, ErrNone)
               [] mode = extra16 -> Size(size + bigUint16(Drop(b, 1)), 0, ErrNone)
               [] mode = extra32 -> Size(size + bigUint32(Drop(b, 1)), 0, ErrNone)
               [] mode = map16v -> Size(size, 2 * bigUint16(Drop(b, 1)), ErrNone)
               [] mode = map32v -> Size(size, 2 * bigUint32(Drop(b, 1)), ErrNone)
               [] mode = array16v -> Size(size, bigUint16(Drop(b, 1)), ErrNone)
               [] mode = array32v -> Size(size, bigUint32(Drop(b, 1)), ErrNone)
               [] OTHER -> Size(0, 0, fatal)

(* getSize: (skip sz bytes, skip asz objects, error) *)
getSize(b) ==
    LET l == Len(b)
        lead == At(b, 0)
        spec == sizes(lead)
        size == spec.size
        mode == spec.extra
    IN  IF l = 0 THEN Size(0, 0, ErrShortBytes)
        ELSE IF size = 0 THEN Size(0, 0, InvalidPrefixError(lead))
        ELSE IF mode >= 0 THEN Size(size, mode, ErrNone)
        ELSE IF l < size THEN Size(0, 0, ErrShortBytes)
        ELSE CASE mode = extra8 -> Size(size + At(b, 1), 0, ErrNone)
               [] mode = extra16 -> Size(size + bigUint16(Drop(b, 1)), 0, ErrNone)
               [] mode = extra32 -> Size(size + bigUint32(Drop(b, 1)), 0, ErrNone)
               [] mode = map16v -> Size(size, 2 * bigUint16(Drop(b, 1)), ErrNone)
               [] mode = map32v -> Size(size, 2 * bigUint32(Drop(b, 1)), ErrNone)
               [] mode = array16v -> Size(size, bigUint16(Drop(b, 1)), ErrNone)
               [] mode = array32v -> Size(size, bigUint32(Drop(b, 1)), ErrNone)
               [] OTHER -> Size(0, 0, fatal)

(* Skip(b), and its loop "for asz > 0 { b, err = Skip(b); ...; asz-- }".   *)
(* On an error of a nested Skip the loop returns the b that Skip returned. *)
RECURSIVE Skip(_), SkipLoop(_, _)
Skip(b) ==
    LET g == getSize(b)
    IN  IF g.err.kind # "nil" THEN Ret(Nil, b, g.err)
        ELSE IF Len(b) < g.sz THEN Ret(Nil, b, ErrShortBytes)
        ELSE SkipLoop(Drop(b, g.sz), g.asz)
SkipLoop(b, asz) ==
    IF asz > 0
    THEN LET s == Skip(b)
         IN  IF s.err.kind # "nil" THEN Ret(Nil, s.o, s.err)
             ELSE SkipLoop(s.o, asz - 1)
    ELSE Ret(Nil, b, ErrNone)

----------------------------------------------------------------------------
(* NextType and the readers ReadIntfBytes dispatches to *)

Int8Of(x) == IF x >= 128 THEN x - 256 ELSE x

NextType(b) ==
    IF Len(b) = 0 THEN "InvalidType"
    ELSE LET spec == sizes(At(b, 0))
             t == spec.typ
             tp == Int8Of(IF spec.extra = constsize THEN At(b, 1) ELSE At(b, spec.size - 1))
         IN  IF t = "ExtensionType" /\ Len(b) > spec.size
             THEN CASE tp = TimeExtension -> "TimeType"
                    [] tp = Complex128Extension -> "Complex128Type"
                    [] tp = Complex64Extension -> "Complex64Type"
                    [] OTHER -> "ExtensionType"
             ELSE t

ReadMapHeaderBytes(b) ==
    LET l == Len(b)
        lead == At(b, 0)
    IN  IF l < 1 THEN Ret(0, Nil, ErrShortBytes)
        ELSE IF isfixmap(lead) THEN Ret(rfixmap(lead), Drop(b, 1), ErrNone)
        ELSE CASE lead = mmap16 ->
                    IF l < 3 THEN Ret(0, Nil, ErrShortBytes)
                    ELSE Ret(bigUint16(Drop(b, 1)), Drop(b, 3), ErrNone)
               [] lead = mmap32 ->
                    IF l < 5 THEN Ret(0, Nil, ErrShortBytes)
                    ELSE Ret(bigUint32(Drop(b, 1)), Drop(b, 5), ErrNone)
               [] OTHER -> Ret(0, Nil, badPrefix("MapType", lead))

ReadArrayHeaderBytes(b) ==
    LET l == Len(b)
        lead == At(b, 0)
    IN  IF l < 1 THEN Ret(0, Nil, ErrShortBytes)
        ELSE IF isfixarray(lead) THEN Ret(rfixarray(lead), Drop(b, 1), ErrNone)
        ELSE CASE lead = marray16 ->
                    IF l < 3 THEN Ret(0, Nil, ErrShortBytes)
                    ELSE Ret(bigUint16(Drop(b, 1)), Drop(b, 3), ErrNone)
               [] lead = marray32 ->
                    IF l < 5 THEN Ret(0, Nil, ErrShortBytes)
                    ELSE Ret(bigUint32(Drop(b, 1)), Drop(b, 5), ErrNone)
               [] OTHER -> Ret(0, Nil, badPrefix("ArrayType", lead))

(* Floats, complex numbers and times are kept as the bits they are made of. *)
Float32frombits(x) == [float32 |-> x]
Float64frombits(x) == [float64 |-> x]
Float64Of(f) == [float64of |-> f]
Complex(re, im) == [re |-> re, im |-> im]
TimeUnix(sec, nsec) == [sec |-> sec, nsec |-> nsec]
getUnix(b) == [sec |-> SubSeq(b, 1, 8), nsec |-> SubSeq(b, 9, 12)]

(* The remaining bytes start one byte early: o = b[4:]. *)
ReadFloat32BytesOneShort(b) ==
    IF Len(b) < 5 THEN Ret(Float32frombits(Zeros(4)), Nil, ErrShortBytes)
    ELSE IF At(b, 0) # mfloat32
         THEN Ret(Float32frombits(Zeros(4)), Nil, TypeError("Float32Type", getType(At(b, 0))))
    ELSE Ret(Float32frombits(getMuint32(b)), Drop(b, 4), ErrNone)

ReadFloat32Bytes(b) ==
    IF Len(b) < 5 THEN Ret(Float32frombits(Zeros(4)), Nil, ErrShortBytes)
    ELSE IF At(b, 0) # mfloat32
         THEN Ret(Float32frombits(Zeros(4)), Nil, TypeError("Float32Type", getType(At(b, 0))))
    ELSE Ret(Float32frombits(getMuint32(b)), Drop(b, 5), ErrNone)

ReadFloat64Bytes(b) ==
    LET tf == ReadFloat32Bytes(b)
    IN  IF Len(b) < 9
        THEN IF Len(b) >= 5 /\ At(b, 0) = mfloat32
             THEN Ret(Float64Of(tf.v), tf.o, tf.err)
             ELSE Ret(Float64frombits(Zeros(8)), Nil, ErrShortBytes)
        ELSE IF At(b, 0) # mfloat64
             THEN IF At(b, 0) = mfloat32
                  THEN Ret(Float64Of(tf.v), tf.o, tf.err)
                  ELSE Ret(Float64frombits(Zeros(8)), Nil, badPrefix("Float64Type", At(b, 0)))
        ELSE Ret(Float64frombits(getMuint64(b)), Drop(b, 9), ErrNone)

ReadComplex128Bytes(b) ==
    IF Len(b) < 18 THEN Ret(Complex(Zeros(8), Zeros(8)), Nil, ErrShortBytes)
    ELSE IF At(b, 0) # mfixext16
         THEN Ret(Complex(Zeros(8), Zeros(8)), Nil, badPrefix("Complex128Type", At(b, 0)))
    ELSE IF Int8Of(At(b, 1)) # Complex128Extension
         THEN Ret(Complex(Zeros(8), Zeros(8)), Nil,
                  ExtensionTypeError(Int8Of(At(b, 1)), Complex128Extension))
    ELSE Ret(Complex(Float64frombits(SubSeq(b, 3, 10)), Float64frombits(SubSeq(b, 11, 18))),
             Drop(b, 18), ErrNone)

ReadComplex64Bytes(b) ==
    IF Len(b) < 10 THEN Ret(Complex(Zeros(4), Zeros(4)), Nil, ErrShortBytes)
    ELSE IF At(b, 0) # mfixext8
         THEN Ret(Complex(Zeros(4), Zeros(4)), Nil, badPrefix("Complex64Type", At(b, 0)))
    ELSE IF At(b, 1) # Complex64Extension
         THEN Ret(Complex(Zeros(4), Zeros(4)), Nil,
                  ExtensionTypeError(Int8Of(At(b, 1)), Complex64Extension))
    ELSE Ret(Complex(Float32frombits(SubSeq(b, 3, 6)), Float32frombits(SubSeq(b, 7, 10))),
             Drop(b, 10), ErrNone)

ReadTimeBytes(b) ==
    IF Len(b) < 15 THEN Ret(TimeUnix(Zeros(8), Zeros(4)), Nil, ErrShortBytes)
    ELSE IF At(b, 0) # mext8 \/ At(b, 1) # 12
         THEN Ret(TimeUnix(Zeros(8), Zeros(4)), Nil, badPrefix("TimeType", At(b, 0)))
    ELSE IF Int8Of(At(b, 2)) # TimeExtension
         THEN Ret(TimeUnix(Zeros(8), Zeros(4)), Nil,
                  ExtensionTypeError(Int8Of(At(b, 2)), TimeExtension))
    ELSE Ret(TimeUnix(getUnix(Drop(b, 3)).sec, getUnix(Drop(b, 3)).nsec), Drop(b, 15), ErrNone)

(* peekExtension(b): the type tag of the extension object at the head of b *)
peekExtension(b) ==
    LET spec == sizes(At(b, 0))
    IN  IF spec.typ # "ExtensionType" THEN Ret(0, Nil, badPrefix("ExtensionType", At(b, 0)))
        ELSE IF Len(b) < spec.size THEN Ret(0, Nil, ErrShortBytes)
        ELSE IF spec.extra = constsize THEN Ret(Int8Of(At(b, 1)), Nil, ErrNone)
        ELSE Ret(Int8Of(At(b, spec.size - 1)), Nil, ErrNone)

(* The extension registry: no type is registered. *)
extensionReg == {}

(* ReadExtensionBytes(b, e) on a RawExtension e of type t: v is e's data *)
ReadExtensionBytes(b, t) ==
    LET g == getSize(b)
        off == IF sizes(At(b, 0)).extra = constsize THEN 2 ELSE sizes(At(b, 0)).size
    IN  IF Len(b) < 3 THEN Ret(Nil, Nil, ErrShortBytes)
        ELSE IF getType(At(b, 0)) # "ExtensionType"
             THEN Ret(Nil, Nil, badPrefix("ExtensionType", At(b, 0)))
        ELSE IF g.err.kind # "nil" THEN Ret(Nil, Nil, g.err)
        ELSE IF Len(b) < g.sz THEN Ret(Nil, Nil, ErrShortBytes)
        ELSE IF Int8Of(At(b, off - 1)) # t
             THEN Ret(Nil, Nil, ExtensionTypeError(Int8Of(At(b, off - 1)), t))
        ELSE Ret(SubSeq(b, off + 1, g.sz), Drop(b, g.sz), ErrNone)

----------------------------------------------------------------------------
(* ReadIntfBytes and ReadMapStrIntfBytes.  An interface{} value is a       *)
(* record [type, val] of its dynamic type and its value; a map is          *)
(* [isnil, kv], kv a function from its keys to interface{} values.         *)

Intf(type, val) == [type |-> type, val |-> val]
NilIntf == Intf("nil", <<>>)
NilMap == [isnil |-> TRUE, kv |-> <<>>]
EmptyMap == [isnil |-> FALSE, kv |-> <<>>]
MapPut(m, key, val) ==
    [isnil |-> FALSE,
     kv |-> [k \in (DOMAIN m.kv) \cup {key} |-> IF k = key THEN val ELSE m.kv[k]]]

(* i, o, err = ReadXBytes(b): the value x.v read, held in an interface{} *)
AsIntf(type, x) == Ret(Intf(type, x.v), x.o, x.err)

(* e := RawExtension{}; e.Type = t; o, err = ReadExtensionBytes(b, &e); i = &e *)
AsExtension(type, t, x) == Ret(Intf(type, [Type |-> t, Data |-> x.v]), x.o, x.err)

RECURSIVE ReadIntfBytes(_), ReadMapStrIntfBytes(_, _), ReadMapLoop(_, _, _, _)
RECURSIVE ReadMapKey(_, _, _, _), ReadMapVal(_, _, _, _, _)
RECURSIVE ReadArrayLoop(_, _, _), ReadArrayElem(_, _, _)

(* for z := uint32(0); z < sz; z++ { ... }: one turn reads the key, then   *)
(* the value, then stores old[string(key)] = val.                          *)
ReadMapLoop(z, sz, o, old) ==
    IF z < sz
    THEN IF Len(o) < 1 THEN Ret(old, o, ErrShortBytes)
         ELSE ReadMapKey(z, sz, ReadMapKeyZC(o), old)
    ELSE Ret(old, o, ErrNone)
ReadMapKey(z, sz, key, old) ==
    IF key.err.kind # "nil" THEN Ret(old, key.o, key.err)
    ELSE ReadMapVal(z, sz, key, ReadIntfBytes(key.o), old)
ReadMapVal(z, sz, key, val, old) ==
    IF val.err.kind # "nil" THEN Ret(old, val.o, val.err)
    ELSE ReadMapLoop(z + 1, sz, val.o, MapPut(old, key.v, val.v))

ReadMapStrIntfBytes(b, old) ==
    LET h == ReadMapHeaderBytes(b)
    IN  IF h.err.kind # "nil" THEN Ret(old, h.o, h.err)
        ELSE ReadMapLoop(0, h.v, h.o, EmptyMap)

(* for d := range j { j[d], o, err = ReadIntfBytes(o); ... }: i is j, so   *)
(* what the loop has stored in j is what the caller gets.                  *)
ReadArrayLoop(d, j, o) ==
    IF d < Len(j) THEN ReadArrayElem(d, j, ReadIntfBytes(o))
    ELSE Ret(Intf("[]interface{}", j), o, ErrNone)
ReadArrayElem(d, j, e) ==
    IF e.err.kind # "nil"
    THEN Ret(Intf("[]interface{}", [j EXCEPT ![d + 1] = e.v]), e.o, e.err)
    ELSE ReadArrayLoop(d + 1, [j EXCEPT ![d + 1] = e.v], e.o)

ReadIntfBytes(b) ==
    IF Len(b) < 1 THEN Ret(NilIntf, Nil, ErrShortBytes)
    ELSE LET k == NextType(b)
         IN  CASE k = "MapType" ->
                    AsIntf("map[string]interface{}", ReadMapStrIntfBytes(b, NilMap))
               [] k = "ArrayType" ->
                    LET h == ReadArrayHeaderBytes(b)
                    IN  IF h.err.kind # "nil" THEN Ret(NilIntf, h.o, h.err)
                        ELSE ReadArrayLoop(0, [d \in 1..h.v |-> NilIntf], h.o)
               [] k = "Float32Type" -> AsIntf("float32", ReadFloat32Bytes(b))
               [] k = "Float64Type" -> AsIntf("float64", ReadFloat64Bytes(b))
               [] k = "IntType" -> AsIntf("int64", ReadInt64Bytes(b))
               [] k = "UintType" -> AsIntf("uint64", ReadUint64Bytes(b))
               [] k = "BoolType" -> AsIntf("bool", ReadBoolBytes(b))
               [] k = "TimeType" -> AsIntf("time.Time", ReadTimeBytes(b))
               [] k = "Complex64Type" -> AsIntf("complex64", ReadComplex64Bytes(b))
               [] k = "Complex128Type" -> AsIntf("complex128", ReadComplex128Bytes(b))
               [] k = "ExtensionType" ->
                    LET t == peekExtension(b)
                    IN  IF t.err.kind # "nil" THEN Ret(NilIntf, Nil, t.err)
                        ELSE IF t.v \in extensionReg
                             THEN AsExtension("Extension", t.v, ReadExtensionBytes(b, t.v))
                             ELSE AsExtension("*RawExtension", t.v, ReadExtensionBytes(b, t.v))
               [] k = "NilType" ->
                    LET x == ReadNilBytes(b) IN Ret(NilIntf, x.o, x.err)
               [] k = "BinType" -> AsIntf("[]byte", ReadBytesBytes(b, Nil))
               [] k = "StrType" -> AsIntf("string", ReadStringBytes(b))
               [] OTHER -> Ret(NilIntf, Nil, InvalidPrefixError(At(b, 0)))

----------------------------------------------------------------------------
(* Raw: a byte slice [arr, len], arr its backing array up to its capacity  *)
(* and len its length; its contents are the first len bytes of arr.        *)

RawOf(arr, len) == [arr |-> arr, len |-> len]
Contents(x) == Take(x.arr, x.len)
Cap(x) == Len(x.arr)

(* AppendNil(b) and ensure(b, sz): b with one nil byte appended, and b     *)
(* lengthened by sz bytes together with its former length.                 *)
AppendNil(b) == b \o <<mnil>>
ensure(b, sz) == [o |-> b \o Zeros(sz), l |-> Len(b)]

(* copy(dst, src) on byte sequences: min(len) bytes of src over dst *)
Copy(dst, src) ==
    Take(src, Min(Len(dst), Len(src))) \o Drop(dst, Min(Len(dst), Len(src)))

Raw_MarshalMsg(x, b) ==
    LET i == x.len
        e == ensure(b, i)
    IN  IF i = 0 THEN Ret(AppendNil(b), Nil, ErrNone)
        ELSE Ret(Take(e.o, e.l) \o Copy(Drop(e.o, e.l), Contents(x)), Nil, ErrNone)

(* The receiver keeps one byte more than the object. *)
Raw_UnmarshalMsgOneMore(x, b) ==
    LET l == Len(b)
        s == Skip(b)
        rlen == Min(l, l - Len(s.o) + 1)
        y == IF Cap(x) < rlen THEN RawOf(Zeros(rlen), rlen) ELSE RawOf(x.arr, rlen)
    IN  IF s.err.kind # "nil" THEN Ret(x, b, s.err)
        ELSE Ret(RawOf(Copy(Contents(y), Take(b, rlen)) \o Drop(y.arr, rlen), rlen),
                 s.o, ErrNone)

(* (r *Raw).UnmarshalMsg(b): v is the receiver after the call. *)
Raw_UnmarshalMsg(x, b) ==
    LET l == Len(b)
        s == Skip(b)
        rlen == l - Len(s.o)
        y == IF Cap(x) < rlen THEN RawOf(Zeros(rlen), rlen) ELSE RawOf(x.arr, rlen)
    IN  IF s.err.kind # "nil" THEN Ret(x, b, s.err)
        ELSE Ret(RawOf(Copy(Contents(y), Take(b, rlen)) \o Drop(y.arr, rlen), rlen),
                 s.o, ErrNone)

----------------------------------------------------------------------------
(* The state every run starts from, and one call of a reader *)

NoRet == Ret(Nil, Nil, ErrNone)
NoRaw == [arr |-> <<>>, len |-> 0]

\* No element tree and no size generator: the runs of the decoder have neither.
NoElem == <<>>
NoGen == <<>>

Start(b, os) ==
    /\ buf = b
    /\ b0 = b
    /\ objs = os
    /\ call = <<"init", NoRet>>
    /\ calls = 0
    /\ r = NoRaw
    /\ into = <<>>
    /\ frames = <<>>
    /\ elem = NoElem
    /\ gen = NoGen

Call(name, result) ==
    /\ op = "init"
    /\ call' = <<name, result>>
    /\ UNCHANGED <<buf, b0, objs, calls, r, into, frames, elem, gen>>

----------------------------------------------------------------------------
(* Integer inputs: every integer form, with payloads around the boundaries *)
(* of the 8, 16, 32 and 64 bit types, whole, truncated and followed by     *)
(* more bytes; and a few objects that are not integers.                    *)

ByteSamples == {0, 1, 127, 128, 255}

(* k bytes of x, then y, then z to the end: a run of sign or zero          *)
(* extension, one byte at the boundary, and a fill.                        *)
Payload(w) ==
    {[i \in 1..w |-> IF i <= k THEN x ELSE IF i = k + 1 THEN y ELSE z] :
        k \in 0..(w - 1), x \in {0, 255}, y \in ByteSamples, z \in {0, 255}}

FixLeads == {0, 1, 127, mnfixint, 255}
IntLeads == {mint8, mint16, mint32, mint64}
UintLeads == {muint8, muint16, muint32, muint64}
OtherObjects == {<<mnil>>, <<mtrue>>, <<mfalse>>, <<193>>, <<mfixstr>>, <<mfixarray>>}

IntObjects ==
    {<<lead>> : lead \in FixLeads}
    \cup UNION {{<<lead>> \o p : p \in Payload(sizes(lead).size - 1)} :
                    lead \in IntLeads \cup UintLeads}

Prefixes(S) == UNION {{Take(x, n) : n \in 0..Len(x)} : x \in S}

NumInputs ==
    Prefixes(IntObjects)
    \cup {x \o <<mnil>> : x \in IntObjects}
    \cup OtherObjects

InitNum == \E b \in NumInputs : Start(b, <<>>)

CallReadNilBytes == Call("ReadNilBytes", ReadNilBytes(buf))
CallReadBoolBytes == Call("ReadBoolBytes", ReadBoolBytes(buf))
CallReadInt64Bytes == Call("ReadInt64Bytes", ReadInt64Bytes(buf))
CallReadInt32Bytes == Call("ReadInt32Bytes", ReadInt32Bytes(buf))
CallReadInt16Bytes == Call("ReadInt16Bytes", ReadInt16Bytes(buf))
CallReadInt8Bytes == Call("ReadInt8Bytes", ReadInt8Bytes(buf))
CallReadUint64Bytes == Call("ReadUint64Bytes", ReadUint64Bytes(buf))
CallReadUint32Bytes == Call("ReadUint32Bytes", ReadUint32Bytes(buf))
CallReadUint16Bytes == Call("ReadUint16Bytes", ReadUint16Bytes(buf))
CallReadUint8Bytes == Call("ReadUint8Bytes", ReadUint8Bytes(buf))

NextNum ==
    \/ CallReadNilBytes
    \/ CallReadBoolBytes
    \/ CallReadInt64Bytes
    \/ CallReadInt32Bytes
    \/ CallReadInt16Bytes
    \/ CallReadInt8Bytes
    \/ CallReadUint64Bytes
    \/ CallReadUint32Bytes
    \/ CallReadUint16Bytes
    \/ CallReadUint8Bytes

SpecNum == InitNum /\ [][NextNum]_vars

----------------------------------------------------------------------------
(* The integer a wire object encodes, as sign and 64-bit magnitude *)

RECURSIVE AddOne(_)
AddOne(x) ==
    IF x = <<>> THEN <<>>
    ELSE IF x[Len(x)] < 255
         THEN [x EXCEPT ![Len(x)] = x[Len(x)] + 1]
         ELSE AddOne(Take(x, Len(x) - 1)) \o <<0>>

Invert(x) == [i \in 1..Len(x) |-> 255 - x[i]]
Number(neg, mag) == [neg |-> neg, mag |-> ZeroExtend(mag, 8)]
UnsignedValue(x) == Number(FALSE, x)
SignedValue(x) == IF IsNeg(x) THEN Number(TRUE, AddOne(Invert(x))) ELSE Number(FALSE, x)

HeadIsInteger(b) ==
    /\ Len(b) >= 1
    /\ getType(At(b, 0)) \in {"IntType", "UintType"}
    /\ Len(b) >= sizes(At(b, 0)).size

HeadIsUnsigned(b) ==
    HeadIsInteger(b) /\ (isfixint(At(b, 0)) \/ getType(At(b, 0)) = "UintType")

WirePayload(b) == SubSeq(b, 2, sizes(At(b, 0)).size)

WireValue(b) ==
    LET lead == At(b, 0)
    IN  IF isfixint(lead) THEN Number(FALSE, <<lead>>)
        ELSE IF isnfixint(lead) THEN Number(TRUE, <<256 - lead>>)
        ELSE IF getType(lead) = "UintType" THEN UnsignedValue(WirePayload(b))
        ELSE SignedValue(WirePayload(b))

WireTail(b) == Drop(b, sizes(At(b, 0)).size)

(* whether a number lies in the range of the signed / unsigned type        *)
(* whose largest value is max                                              *)
FitsSigned(n, max) ==
    IF n.neg THEN ~ULess(AddOne(max), n.mag) ELSE ~ULess(max, n.mag)
FitsUnsigned(n, max) == ~n.neg /\ ~ULess(max, n.mag)

(* C2: on a complete integer object of any form ReadInt64Bytes returns the *)
(* integer on the wire (signed forms as two's complement, unsigned forms   *)
(* as unsigned), the tail after the object and a nil error, except that a  *)
(* uint64 above 2^63-1 yields UintOverflow{value, 64}.                     *)
C2_ReadInt64ReturnsWireValue ==
    (op = "ReadInt64Bytes" /\ HeadIsInteger(buf)) =>
        IF ~FitsSigned(WireValue(buf), MaxInt64)
        THEN /\ ret.err.kind = "UintOverflow"
             /\ ret.err.Value = WirePayload(buf)
             /\ ret.err.FailedBitsize = 64
        ELSE /\ Ok(ret)
             /\ SignedValue(ret.v) = WireValue(buf)
             /\ ret.o = WireTail(buf)

NarrowSigned == {"ReadInt32Bytes", "ReadInt16Bytes", "ReadInt8Bytes"}
NarrowUnsigned == {"ReadUint32Bytes", "ReadUint16Bytes", "ReadUint8Bytes"}
TargetBits ==
    [ReadInt32Bytes |-> 32, ReadInt16Bytes |-> 16, ReadInt8Bytes |-> 8,
     ReadUint32Bytes |-> 32, ReadUint16Bytes |-> 16, ReadUint8Bytes |-> 8]
TargetMax ==
    [ReadInt32Bytes |-> MaxInt32, ReadInt16Bytes |-> MaxInt16, ReadInt8Bytes |-> MaxInt8,
     ReadUint32Bytes |-> MaxUint32, ReadUint16Bytes |-> MaxUint16,
     ReadUint8Bytes |-> MaxUint8]

(* C3: the narrow integer readers never truncate silently: on a complete   *)
(* integer object of a form the reader accepts, a nil error comes only     *)
(* with the value on the wire, and a wire value outside the target type    *)
(* fails with IntOverflow (UintOverflow for the unsigned readers) carrying *)
(* the wire value and the target width.                                    *)
C3_NarrowReadersNeverTruncate ==
    /\ (op \in NarrowSigned /\ HeadIsInteger(buf)) =>
            /\ Ok(ret) => SignedValue(ret.v) = WireValue(buf)
            /\ ~FitsSigned(WireValue(buf), TargetMax[op]) =>
                    /\ ret.err.kind = "IntOverflow"
                    /\ SignedValue(ret.err.Value) = WireValue(buf)
                    /\ ret.err.FailedBitsize = TargetBits[op]
    /\ (op \in NarrowUnsigned /\ HeadIsUnsigned(buf)) =>
            /\ Ok(ret) => UnsignedValue(ret.v) = WireValue(buf)
            /\ ~FitsUnsigned(WireValue(buf), TargetMax[op]) =>
                    /\ ret.err.kind = "UintOverflow"
                    /\ UnsignedValue(ret.err.Value) = WireValue(buf)
                    /\ ret.err.FailedBitsize = TargetBits[op]

ScalarReaders ==
    {"ReadNilBytes", "ReadBoolBytes", "ReadInt64Bytes", "ReadUint64Bytes"}
    \cup NarrowSigned \cup NarrowUnsigned

(* C5: the typed scalar readers never consume bytes on error: whenever one *)
(* returns a non-nil error, the remaining bytes it returns are the input.  *)
C5_ScalarReadersKeepInputOnError ==
    (op \in ScalarReaders /\ Failed(ret)) => ret.o = buf

----------------------------------------------------------------------------
(* str and bin inputs: every length form, the declared length n and the    *)
(* bytes that follow the header chosen apart, so that the payload may be   *)
(* whole, short or followed by more; and headers cut short.                *)

MaxStrLen == 2
MaxAfter == 3

RECURSIVE Seqs(_, _)
Seqs(S, n) ==
    IF n = 0 THEN {<<>>}
    ELSE Seqs(S, n - 1) \cup {<<x>> \o t : x \in S, t \in {u \in Seqs(S, n - 1) : Len(u) = n - 1}}

be16(n) == <<n \div 256, n % 256>>
be32(n) == <<n \div 16777216, (n \div 65536) % 256, (n \div 256) % 256, n % 256>>

StrForms == {"fixstr", "str8", "str16", "str32"}
BinForms == {"bin8", "bin16", "bin32"}

LenHeader(form, n) ==
    CASE form = "fixstr" -> <<mfixstr + n>>
      [] form = "str8" -> <<mstr8, n>>
      [] form = "str16" -> <<mstr16>> \o be16(n)
      [] form = "str32" -> <<mstr32>> \o be32(n)
      [] form = "bin8" -> <<mbin8, n>>
      [] form = "bin16" -> <<mbin16>> \o be16(n)
      [] form = "bin32" -> <<mbin32>> \o be32(n)

DeclaredLens(form) ==
    (0..MaxStrLen)
    \cup (IF form \in {"str16", "bin16", "str32", "bin32"} THEN {256} ELSE {})
    \cup (IF form \in {"str32", "bin32"} THEN {65536, 16777216} ELSE {})

AfterBytes == Seqs({97, mnil}, MaxAfter)

(* [kind, form, hdr, n, after, whole]: the header bytes present, the       *)
(* declared length, the bytes after the header, and whether the header is  *)
(* whole.                                                                  *)
LenInputs ==
    UNION {UNION {
        {[kind |-> IF form \in StrForms THEN "str" ELSE "bin", form |-> form,
          hdr |-> LenHeader(form, n), n |-> n, after |-> a, whole |-> TRUE] :
            a \in AfterBytes}
        \cup {[kind |-> IF form \in StrForms THEN "str" ELSE "bin", form |-> form,
               hdr |-> Take(LenHeader(form, n), k), n |-> n, after |-> <<>>,
               whole |-> FALSE] : k \in 0..(Len(LenHeader(form, n)) - 1)}
        : n \in DeclaredLens(form)} : form \in StrForms \cup BinForms}

Intos == {[i \in 1..n |-> 7] : n \in 0..MaxStrLen}

InitLen ==
    \E I \in LenInputs, d \in Intos :
        /\ buf = I.hdr \o I.after
        /\ b0 = I.hdr \o I.after
        /\ objs = <<I>>
        /\ call = <<"init", NoRet>>
        /\ calls = 0
        /\ r = NoRaw
        /\ into = d
        /\ frames = <<>>
        /\ elem = NoElem
        /\ gen = NoGen

CallReadStringZC == Call("ReadStringZC", ReadStringZC(buf))
CallReadBytesZC == Call("ReadBytesZC", ReadBytesZC(buf))
CallReadMapKeyZC == Call("ReadMapKeyZC", ReadMapKeyZC(buf))

CallReadExactBytes ==
    /\ op = "init"
    /\ call' = <<"ReadExactBytes", ReadExactBytes(buf, into)>>
    /\ into' = ReadExactBytes(buf, into).v
    /\ UNCHANGED <<buf, b0, objs, calls, r, frames, elem, gen>>

NextLen ==
    \/ CallReadStringZC
    \/ CallReadBytesZC
    \/ CallReadMapKeyZC
    \/ CallReadExactBytes

SpecLen == InitLen /\ [][NextLen]_vars

In == objs[1]
Complete(I) == I.whole /\ Len(I.after) >= I.n
SameRet(x, y) == x.v = y.v /\ x.o = y.o /\ x.err.kind = y.err.kind

(* C4: ReadMapKeyZC accepts a key encoded as str or as bin: on a complete  *)
(* str object it returns what ReadStringZC returns, on a complete bin      *)
(* object what ReadBytesZC returns: the payload, the tail and a nil error. *)
C4_MapKeyStrOrBin ==
    (op = "ReadMapKeyZC" /\ Complete(In)) =>
        /\ In.kind = "str" => SameRet(ret, ReadStringZC(buf))
        /\ In.kind = "bin" => SameRet(ret, ReadBytesZC(buf))
        /\ Ok(ret)
        /\ ret.v = Take(In.after, In.n)
        /\ ret.o = Drop(In.after, In.n)

(* C6: ReadStringZC and ReadBytesZC split the input without loss: with at  *)
(* least n bytes after the header the value is exactly those n bytes and   *)
(* the rest the remainder, so header ++ v ++ rest is the input; with fewer *)
(* (or a header cut short) the reader fails with ErrShortBytes and returns *)
(* no shortened value.                                                     *)
C6_ZeroCopySplit ==
    ((op = "ReadStringZC" /\ In.kind = "str") \/ (op = "ReadBytesZC" /\ In.kind = "bin")) =>
        IF Complete(In)
        THEN /\ Ok(ret)
             /\ ret.v = Take(In.after, In.n)
             /\ ret.o = Drop(In.after, In.n)
             /\ In.hdr \o ret.v \o ret.o = buf
        ELSE /\ ret.err.kind = "ErrShortBytes"
             /\ ret.v = Nil

C6_Witness ==
    /\ op = "ReadBytesZC"
    /\ In.form = "bin32"
    /\ In.n = MaxStrLen
    /\ Len(In.after) > In.n
    /\ Ok(ret)
    /\ Len(ret.v) = MaxStrLen
    /\ ret.o # <<>>

(* C7: ReadExactBytes returns a nil error only on a complete bin object    *)
(* whose declared length is len(into), leaving the payload in into and     *)
(* returning the tail; a different declared length fails with              *)
(* ArrayError{len(into), declared}; an equal declared length with fewer    *)
(* payload bytes present fails with ErrShortBytes.                         *)
C7_ExactBytes ==
    (op = "ReadExactBytes" /\ In.kind = "bin" /\ In.whole) =>
        /\ Ok(ret) =>
                /\ Complete(In)
                /\ In.n = Len(into)
                /\ into = Take(In.after, In.n)
                /\ ret.o = Drop(In.after, In.n)
        /\ In.n # Len(into) =>
                /\ ret.err.kind = "ArrayError"
                /\ ret.err.Wanted = Len(into)
                /\ ret.err.Got = In.n
        /\ (In.n = Len(into) /\ Len(In.after) < In.n) => ret.err.kind = "ErrShortBytes"

----------------------------------------------------------------------------
(* Well-formed objects: every form of scalar, str, bin and ext, and arrays *)
(* and maps nested MaxDepth deep with up to MaxElems elements or pairs.    *)
(* The payload bytes are themselves lead bytes of composites.              *)

MaxDepth == 2
MaxElems == 2
MaxObjs == 3

PayloadByte == mfixarray + 1
Pay(n) == [i \in 1..n |-> PayloadByte]

(* <<lead, number of bytes that follow it>> of the fixed-size forms *)
FixedForms ==
    {<<mfloat32, 4>>, <<mfloat64, 8>>,
     <<muint8, 1>>, <<muint16, 2>>, <<muint32, 4>>, <<muint64, 8>>,
     <<mint8, 1>>, <<mint16, 2>>, <<mint32, 4>>, <<mint64, 8>>,
     <<mfixext1, 2>>, <<mfixext2, 3>>, <<mfixext4, 5>>, <<mfixext8, 9>>,
     <<mfixext16, 17>>}

ExtForms == {"ext8", "ext16", "ext32"}
ExtHeader(form, n, tag) ==
    CASE form = "ext8" -> <<mext8, n, tag>>
      [] form = "ext16" -> <<mext16>> \o be16(n) \o <<tag>>
      [] form = "ext32" -> <<mext32>> \o be32(n) \o <<tag>>

Leaves ==
    {<<mnil>>, <<mfalse>>, <<mtrue>>, <<0>>, <<127>>, <<mnfixint>>, <<255>>}
    \cup {<<f[1]>> \o Pay(f[2]) : f \in FixedForms}
    \cup {LenHeader(form, n) \o Pay(n) : form \in StrForms \cup BinForms, n \in 0..MaxStrLen}
    \cup {ExtHeader(form, n, 1) \o Pay(n) : form \in ExtForms, n \in 0..MaxStrLen}
    \cup {ExtHeader("ext8", 12, TimeExtension) \o Pay(12)}

ArrayForms == {"fixarray", "array16", "array32"}
MapForms == {"fixmap", "map16", "map32"}
CountHeader(form, n) ==
    CASE form = "fixarray" -> <<mfixarray + n>>
      [] form = "array16" -> <<marray16>> \o be16(n)
      [] form = "array32" -> <<marray32>> \o be32(n)
      [] form = "fixmap" -> <<mfixmap + n>>
      [] form = "map16" -> <<mmap16>> \o be16(n)
      [] form = "map32" -> <<mmap32>> \o be32(n)

(* m nested objects: one of S at any one place, a one-byte str elsewhere *)
Filler == <<mfixstr + 1, PayloadByte>>
KidSeqs(S, m) ==
    IF m = 0 THEN {<<>>}
    ELSE {[i \in 1..m |-> IF i = p THEN x ELSE Filler] : p \in 1..m, x \in S}
KidAt(x, p, m) == [i \in 1..m |-> IF i = p THEN x ELSE Filler]

ArrayOf(form, kids) == CountHeader(form, Len(kids)) \o Concat(kids)
MapOf(form, kids) == CountHeader(form, Len(kids) \div 2) \o Concat(kids)

(* Every array of up to MaxElems elements and map of up to MaxElems pairs  *)
(* that holds one object of S, in every header form and at every place.    *)
Wide(S) ==
    {ArrayOf(form, kids) :
        form \in ArrayForms, kids \in UNION {KidSeqs(S, m) : m \in 0..MaxElems}}
    \cup {MapOf(form, kids) :
        form \in MapForms, kids \in UNION {KidSeqs(S, 2 * m) : m \in 0..MaxElems}}

(* An object of S as the last element of an array of MaxElems elements and *)
(* as the first key of a map of MaxElems pairs, in every header form.      *)
Deep(S) ==
    {ArrayOf(form, KidAt(x, MaxElems, MaxElems)) : form \in ArrayForms, x \in S}
    \cup {MapOf(form, KidAt(x, 1, 2 * MaxElems)) : form \in MapForms, x \in S}

(* One scalar of each size rule: a lone lead byte, a fixed size, and a     *)
(* length of one, two and four bytes.                                      *)
Sample ==
    {<<mnil>>, <<mfloat64>> \o Pay(8),
     LenHeader("bin8", MaxStrLen) \o Pay(MaxStrLen),
     LenHeader("str16", 1) \o Pay(1),
     ExtHeader("ext32", 1, 1) \o Pay(1)}

(* The arrays and maps nested exactly d deep around the sample scalars,    *)
(* and the objects nested at most d deep.                                  *)
RECURSIVE Composites(_)
Composites(d) == IF d = 1 THEN Wide(Sample) ELSE Deep(Composites(d - 1))
Objects(d) ==
    Leaves \cup (IF d >= 1 THEN Wide(Leaves) ELSE {})
           \cup UNION {Composites(i) : i \in 2..d}

(* The objects that follow the first in a buffer of several. *)
Followers ==
    [i \in 1..(MaxObjs - 1) |->
        IF i % 2 = 1 THEN <<mfixmap + 1>> \o Filler \o <<mnil>> ELSE Filler]

(* One object alone or MaxObjs objects carry the deepest nesting; the     *)
(* buffers of other lengths start with an object one level shallower.     *)
InitSkip ==
    \E k \in 1..MaxObjs :
        \E x \in Objects(IF k \in {1, MaxObjs} THEN MaxDepth ELSE MaxDepth - 1) :
            Start(Concat(<<x>> \o Take(Followers, k - 1)), <<x>> \o Take(Followers, k - 1))

(* b, err = Skip(b): the caller goes on with the bytes Skip returned. *)
CallSkip ==
    /\ op \in {"init", "Skip"}
    /\ Ok(ret)
    /\ calls < Len(objs)
    /\ call' = <<"Skip", Skip(buf)>>
    /\ buf' = Skip(buf).o
    /\ calls' = calls + 1
    /\ UNCHANGED <<b0, objs, r, into, frames, elem, gen>>

NextSkip == CallSkip

SpecSkip == InitSkip /\ [][NextSkip]_vars

(* C1: on a buffer of k well-formed objects, k successive Skip calls each  *)
(* succeed, each returns the tail after exactly one top-level object, and  *)
(* the k-th returns the empty slice.                                       *)
C1_SkipConsumesOneObject ==
    op = "Skip" =>
        /\ Ok(ret)
        /\ ret.o = Concat(SubSeq(objs, calls + 1, Len(objs)))
        /\ Concat(Take(objs, calls)) \o ret.o = b0
        /\ calls = Len(objs) => ret.o = <<>>

C1_Witness ==
    /\ op = "Skip"
    /\ Len(objs) = MaxObjs
    /\ calls = MaxObjs
    /\ Ok(ret)
    /\ ret.o = <<>>
    /\ At(b0, 0) = mmap16
    /\ At(b0, 3) = marray32
    /\ Len(objs[1]) > 12

----------------------------------------------------------------------------
(* Raw: a receiver that is nil, or has room for MaxCap bytes and holds     *)
(* none or some of them, unmarshals from a buffer that starts with a       *)
(* well-formed object (alone or followed by another), from an object cut   *)
(* short, or from an unmapped lead byte.                                   *)

MaxCap == 4

Stale(n) == [i \in 1..n |-> 7]
RawReceivers == {NoRaw} \cup {RawOf(Stale(MaxCap), n) : n \in {0, MaxCap \div 2}}
RawObjects == Objects(MaxDepth - 1)
CutShort == UNION {{Take(x, n) : n \in 0..(Len(x) - 1)} : x \in Leaves \cup Wide(Sample)}
Dsts == {<<>>, <<mtrue>>}

RawInputs ==
    {[b |-> o, objs |-> <<o>>] : o \in RawObjects}
    \cup {[b |-> o \o Filler, objs |-> <<o, Filler>>] : o \in RawObjects}
    \cup {[b |-> c, objs |-> <<>>] : c \in CutShort \cup {<<mnil + 1>>}}

InitRaw ==
    \E x \in RawReceivers, I \in RawInputs :
        /\ buf = I.b
        /\ b0 = I.b
        /\ objs = I.objs
        /\ call = <<"init", NoRet>>
        /\ calls = 0
        /\ r = x
        /\ into = <<>>
        /\ frames = <<>>
        /\ elem = NoElem
        /\ gen = NoGen

CallRawUnmarshalMsg ==
    /\ op = "init"
    /\ call' = <<"Raw.UnmarshalMsg", Raw_UnmarshalMsg(r, buf)>>
    /\ r' = Raw_UnmarshalMsg(r, buf).v
    /\ UNCHANGED <<buf, b0, objs, calls, into, frames, elem, gen>>

CallRawMarshalMsg ==
    /\ op \in {"init", "Raw.UnmarshalMsg"}
    /\ \E dst \in Dsts :
        /\ call' = <<"Raw.MarshalMsg", Raw_MarshalMsg(r, dst)>>
        /\ into' = dst
    /\ UNCHANGED <<buf, b0, objs, calls, r, frames, elem, gen>>

NextRaw ==
    \/ CallRawUnmarshalMsg
    \/ CallRawMarshalMsg

SpecRaw == InitRaw /\ [][NextRaw]_vars

(* C10: Raw.UnmarshalMsg stores exactly one object: on a buffer whose head *)
(* is a well-formed object of n bytes it sets r to b[0:n] and returns      *)
(* b[n:], so r ++ rest is b, and MarshalMsg of that r onto an empty slice  *)
(* gives b[0:n] back; when Skip fails on b it returns b with the error and *)
(* leaves r as it was; MarshalMsg of a zero-length Raw appends 0xc0.       *)
C10_Step ==
    /\ (op' = "Raw.UnmarshalMsg" /\ objs # <<>>) =>
            /\ Ok(ret')
            /\ Contents(r') = objs[1]
            /\ ret'.o = Drop(buf, Len(objs[1]))
            /\ Contents(r') \o ret'.o = buf
    /\ (op' = "Raw.UnmarshalMsg" /\ Failed(Skip(buf))) =>
            /\ ret'.err.kind = Skip(buf).err.kind
            /\ ret'.o = buf
            /\ r' = r
    /\ (op' = "Raw.MarshalMsg" /\ op = "Raw.UnmarshalMsg" /\ Ok(ret) /\ into' = <<>>) =>
            /\ Ok(ret')
            /\ ret'.v = Take(buf, Len(buf) - Len(ret.o))
            /\ objs # <<>> => ret'.v = objs[1]
    /\ (op' = "Raw.MarshalMsg" /\ r.len = 0) =>
            /\ Ok(ret')
            /\ ret'.v = into' \o <<mnil>>

C10_RawHoldsOneObject == [][C10_Step]_vars

C10_Witness ==
    /\ op = "Raw.MarshalMsg"
    /\ Len(objs) = 2
    /\ into = <<>>
    /\ Len(objs[1]) > MaxCap
    /\ Contents(r) = objs[1]
    /\ ret.v = objs[1]

----------------------------------------------------------------------------
(* Inputs of NextType and of the interface readers: every extension form   *)
(* with the reserved type tags and others, alone in the buffer or followed *)
(* by one more byte; well-formed objects; objects cut short; nothing.      *)

Tags == {1, Complex64Extension, Complex128Extension, TimeExtension, 255}

(* [kind, tag, obj, after]: kind "ext" for a complete extension object obj *)
(* of type tag followed by the bytes after; "bytes" for any other input.   *)
ExtInputs ==
    {[kind |-> "ext", tag |-> t, obj |-> <<f[1], t>> \o Pay(f[2] - 1), after |-> a] :
        f \in {g \in FixedForms : g[1] \in {mfixext1, mfixext2, mfixext4, mfixext8, mfixext16}},
        t \in Tags, a \in {<<>>, <<mnil>>}}
    \cup {[kind |-> "ext", tag |-> t, obj |-> ExtHeader(form, n, t) \o Pay(n), after |-> a] :
        form \in ExtForms, n \in (0..MaxStrLen) \cup {12}, t \in Tags, a \in {<<>>, <<mnil>>}}

OtherInputs ==
    {[kind |-> "bytes", tag |-> 0, obj |-> b, after |-> <<>>] :
        b \in RawObjects \cup CutShort \cup {<<mnil + 1>>}}

StaleMap == MapPut(EmptyMap, <<PayloadByte>>, NilIntf)

InitIntf ==
    \E I \in ExtInputs \cup OtherInputs :
        /\ buf = I.obj \o I.after
        /\ b0 = I.obj \o I.after
        /\ objs = <<I>>
        /\ call = <<"init", NoRet>>
        /\ calls = 0
        /\ r = NoRaw
        /\ into = <<>>
        /\ frames = <<>>
        /\ elem = NoElem
        /\ gen = NoGen

CallNextType == Call("NextType", Ret(NextType(buf), Nil, ErrNone))
CallReadIntfBytes == Call("ReadIntfBytes", ReadIntfBytes(buf))
CallReadMapStrIntfBytes ==
    \E old \in {NilMap, StaleMap} :
        Call("ReadMapStrIntfBytes", ReadMapStrIntfBytes(buf, old))

NextIntf ==
    \/ CallNextType
    \/ CallReadIntfBytes
    \/ CallReadMapStrIntfBytes

SpecIntf == InitIntf /\ [][NextIntf]_vars

(* C8: NextType returns InvalidType for an empty buffer, and on a complete *)
(* extension object of any form TimeType, Complex64Type or Complex128Type  *)
(* when the object's type tag is the reserved one and ExtensionType for    *)
(* any other tag, also when the object is the whole buffer.                *)
C8_NextTypeUpgradesExtensions ==
    op = "NextType" =>
        /\ buf = <<>> => ret.v = "InvalidType"
        /\ In.kind = "ext" =>
                ret.v = CASE In.tag = TimeExtension -> "TimeType"
                          [] In.tag = Complex64Extension -> "Complex64Type"
                          [] In.tag = Complex128Extension -> "Complex128Type"
                          [] OTHER -> "ExtensionType"

HeadIsComposite(b) == Len(b) >= 1 /\ getType(At(b, 0)) \in {"ArrayType", "MapType"}

(* C9: a partial decode returns no value: when ReadIntfBytes or            *)
(* ReadMapStrIntfBytes fails while decoding an array or a map, what it     *)
(* returns is nil or empty: no array and no map that holds the elements    *)
(* decoded before the failure.                                             *)
C9_PartialDecodeReturnsNoValue ==
    /\ (op = "ReadIntfBytes" /\ HeadIsComposite(buf) /\ Failed(ret)) =>
            \/ ret.v.type = "nil"
            \/ ret.v.type = "[]interface{}" /\ Len(ret.v.val) = 0
            \/ ret.v.type = "map[string]interface{}" /\ DOMAIN ret.v.val.kv = {}
    /\ (op = "ReadMapStrIntfBytes" /\ Ok(ReadMapHeaderBytes(buf)) /\ Failed(ret)) =>
            DOMAIN ret.v.kv = {}

----------------------------------------------------------------------------
(* Skip, one invocation at a time, on any buffer: well-formed objects      *)
(* alone or followed by more, objects cut short at every place, array and  *)
(* map headers that declare more elements than follow, unmapped lead       *)
(* bytes at the head and inside a composite, and the empty buffer.         *)
(* frames holds, innermost last, the asz left in the loop of every         *)
(* invocation in progress; calls counts the invocations.                   *)

Overdeclared ==
    {CountHeader(form, n) \o Concat([i \in 1..k |-> Filler]) :
        form \in {"array16", "array32", "map16", "map32"},
        n \in {MaxElems + 1, 255, 65535}, k \in 0..MaxElems}
    \cup {<<lead>> \o Concat([i \in 1..k |-> Filler]) :
        lead \in {mfixarray + 15, mfixmap + 15}, k \in 0..MaxElems}
    \cup {CountHeader(form, 16777216) \o Filler : form \in {"array32", "map32"}}

BadLead == <<mnil + 1>>
\* The sample composites nested d deep: each level wraps the one below as
\* the last element of an array16 and as the last value of a fixmap.
Thin(S) ==
    {ArrayOf("array16", KidAt(x, MaxElems, MaxElems)) : x \in S}
    \cup {MapOf("fixmap", KidAt(x, 2 * MaxElems, 2 * MaxElems)) : x \in S}
RECURSIVE Nested(_)
Nested(d) == IF d = 1 THEN Wide(Sample) ELSE Thin(Nested(d - 1))
CutDeep(d) == {Take(x, Len(x) - 1) : x \in Nested(d)}

SkipInputs(d) ==
    Objects(1) \cup UNION {Nested(i) : i \in 2..d}
    \cup {x \o Filler : x \in Leaves \cup Wide(Sample)}
    \cup CutShort \cup CutDeep(d) \cup Overdeclared
    \cup {BadLead, <<mfixarray + 1>> \o BadLead, <<mfixmap + 1>> \o Filler \o BadLead,
          <<mfixarray + 2, mfixarray + 1>> \o BadLead \o Filler}

InitSkipRun == \E b \in SkipInputs(MaxDepth) : Start(b, <<>>)

Running == op = "Skip running"
Returned == op = "Skip returned"
Top(st) == st[Len(st)]
Pop(st) == SubSeq(st, 1, Len(st) - 1)

(* One invocation of Skip up to its loop: getSize, the length check and    *)
(* b = b[sz:].  It is made by the caller, or by the loop of the innermost  *)
(* invocation while its asz > 0.  On an error every invocation in progress *)
(* returns in turn the b and the error it was handed.                      *)
SkipEnter ==
    /\ \/ op = "init"
       \/ Running /\ Top(frames) > 0
    /\ calls' = calls + 1
    /\ LET g == getSize(buf)
       IN  IF g.err.kind # "nil"
           THEN /\ call' = <<"Skip returned", Ret(Nil, buf, g.err)>>
                /\ frames' = <<>>
                /\ buf' = buf
           ELSE IF Len(buf) < g.sz
           THEN /\ call' = <<"Skip returned", Ret(Nil, buf, ErrShortBytes)>>
                /\ frames' = <<>>
                /\ buf' = buf
           ELSE /\ call' = <<"Skip running", NoRet>>
                /\ frames' = Append(frames, g.asz)
                /\ buf' = Drop(buf, g.sz)
    /\ UNCHANGED <<b0, objs, r, into, elem, gen>>

(* The innermost invocation leaves its loop with asz = 0 and returns       *)
(* b, nil: to the loop that called it, which does asz--, or to the caller. *)
SkipLeave ==
    /\ Running
    /\ Top(frames) = 0
    /\ IF Len(frames) = 1
       THEN /\ call' = <<"Skip returned", Ret(Nil, buf, ErrNone)>>
            /\ frames' = <<>>
       ELSE /\ call' = call
            /\ frames' = Append(Pop(Pop(frames)), Top(Pop(frames)) - 1)
    /\ UNCHANGED <<buf, b0, objs, calls, r, into, elem, gen>>

NextSkipRun ==
    \/ SkipEnter
    \/ SkipLeave

SpecSkipRun == InitSkipRun /\ [][NextSkipRun]_vars /\ WF_vars(NextSkipRun)

IsSuffix(t, b) == Len(t) <= Len(b) /\ t = Drop(b, Len(b) - Len(t))

(* C17: whenever Skip returns an error, also one raised while skipping a   *)
(* nested element after the header was read, the slice it returns is the   *)
(* original b.                                                             *)
C17_SkipKeepsInputOnError ==
    (Returned /\ ~Ok(ret)) => ret.o = b0

(* C19: Skip terminates on every buffer.  Every invocation that gets past  *)
(* its header consumes at least one byte, so at most len(b) + 1            *)
(* invocations are made, and what is returned is an error or a suffix of   *)
(* b; the invocations together return what Skip(b) returns.                *)
C19_Safe ==
    /\ calls <= Len(b0) + 1
    /\ Running => calls <= Len(b0) - Len(buf)
    /\ IsSuffix(buf, b0)
    /\ Returned =>
            /\ ret = Skip(b0)
            /\ ~Ok(ret) \/ IsSuffix(ret.o, b0)

C19_SkipTerminates == []C19_Safe /\ <>Returned

C19_Witness ==
    /\ Returned
    /\ ret.err = ErrShortBytes
    /\ Len(b0) >= 2
    /\ isfixarray(At(b0, 0))
    /\ calls = Len(b0) + 1

----------------------------------------------------------------------------
(* ReadIntfBytes and Skip on the objects both read alike: nil, bool,       *)
(* integers of every form, float32, float64, str, bin, arrays, and maps    *)
(* whose keys are str objects, nested MaxDepth deep, alone in the buffer   *)
(* or followed by more bytes.                                              *)

ExtLeads == {mext8, mext16, mext32, mfixext1, mfixext2, mfixext4, mfixext8, mfixext16}
PlainLeaves == {x \in Leaves : x[1] \notin ExtLeads}
PlainSample == {x \in Sample : x[1] \notin ExtLeads} \cup {<<mfloat32>> \o Pay(4), <<muint32>> \o Pay(4)}
StrLeaves == {LenHeader(form, n) \o Pay(n) : form \in StrForms, n \in 0..MaxStrLen}

(* Every array and map of up to MaxElems elements or pairs that holds one  *)
(* object of S as an element or as a value, or one str of every form as a  *)
(* key, in every header form and at every place.                           *)
PlainWide(S) ==
    {ArrayOf(form, kids) :
        form \in ArrayForms, kids \in UNION {KidSeqs(S, m) : m \in 0..MaxElems}}
    \cup {MapOf(form, <<>>) : form \in MapForms}
    \cup {MapOf(form, KidAt(x, 2 * p, 2 * m)) :
        form \in MapForms, x \in S,
        m \in 1..MaxElems, p \in 1..MaxElems}
    \cup {MapOf(form, KidAt(k, 2 * p - 1, 2 * m)) :
        form \in MapForms, k \in StrLeaves,
        m \in 1..MaxElems, p \in 1..MaxElems}

(* An object of S as the last element of an array and as the last value of *)
(* a map, in every header form.                                            *)
PlainDeep(S) ==
    {ArrayOf(form, KidAt(x, MaxElems, MaxElems)) : form \in ArrayForms, x \in S}
    \cup {MapOf(form, KidAt(x, 2 * MaxElems, 2 * MaxElems)) : form \in MapForms, x \in S}

RECURSIVE PlainComposites(_)
PlainComposites(d) ==
    IF d = 1 THEN PlainWide(PlainSample) ELSE PlainDeep(PlainComposites(d - 1))
PlainObjects(d) ==
    PlainLeaves \cup PlainWide(PlainLeaves) \cup UNION {PlainComposites(i) : i \in 2..d}

InitPlain ==
    \/ \E x \in PlainObjects(1), after \in {<<>>, Filler, BadLead} :
            Start(x \o after, <<x>>)
    \/ \E x \in UNION {PlainComposites(i) : i \in 2..MaxDepth} :
            Start(x \o Filler, <<x>>)

NextPlain ==
    \/ CallReadIntfBytes
    \/ CallSkip

SpecPlain == InitPlain /\ [][NextPlain]_vars

(* C18: on a buffer whose head is such an object ReadIntfBytes succeeds    *)
(* and returns the same remaining bytes as Skip: the bytes after the       *)
(* object.                                                                 *)
C18_ReadIntfAgreesWithSkip ==
    /\ op = "ReadIntfBytes" =>
            /\ Ok(ret)
            /\ Ok(Skip(b0))
            /\ ret.o = Skip(b0).o
            /\ ret.o = Drop(b0, Len(objs[1]))
    /\ op = "Skip" => Ok(ret) /\ ret.o = Drop(b0, Len(objs[1]))

C18_Witness ==
    /\ op = "ReadIntfBytes"
    /\ Ok(ret)
    /\ Len(b0) > 7 + Len(Filler) * (MaxElems - 1)
    /\ At(b0, 0) = marray16
    /\ At(b0, 3 + Len(Filler) * (MaxElems - 1)) = mmap32
    /\ At(b0, 7 + Len(Filler) * (MaxElems - 1)) = MaxElems
    /\ ret.o = Filler
    /\ Skip(b0).o = Filler

----------------------------------------------------------------------------
(* The MessagePack to JSON transcoder.  The destination writer is the      *)
(* sequence of the bytes written to it; every write succeeds.  A result is *)
(* [v: [n: the count returned, w: the bytes written], o: what is left of   *)
(* the source stream, err].  The Reader is declared outside this file: one *)
(* of its methods reads from the stream what the byte-slice reader of the  *)
(* same name reads from b, and reports io.EOF at the end of the stream.    *)

Wrote(n, w, src, err) == Ret([n |-> n, w |-> w], src, err)
ErrEOF == [kind |-> "io.EOF"]
ErrUnexpectedEOF == [kind |-> "io.ErrUnexpectedEOF"]
ErrNotFollowed == [kind |-> "not followed"]

null == <<110, 117, 108, 108>>
hex(x) == IF x < 10 THEN 48 + x ELSE 87 + x

RuneSelf == 128
RuneError == 65533

(* utf8.DecodeRune(p): [c: the rune, size: its width in bytes];            *)
(* [c: RuneError, size: 1] for an encoding that is not valid.              *)
Rune(c, size) == [c |-> c, size |-> size]
Cont(x) == x >= 128 /\ x <= 191
DecodeRune(p) ==
    LET n == Len(p)
        p0 == At(p, 0)
        sz == IF p0 < 224 THEN 2 ELSE IF p0 < 240 THEN 3 ELSE 4
        lo == CASE p0 = 224 -> 160 [] p0 = 240 -> 144 [] OTHER -> 128
        hi == CASE p0 = 237 -> 159 [] p0 = 244 -> 143 [] OTHER -> 191
    IN  IF n < 1 THEN Rune(RuneError, 0)
        ELSE IF p0 < RuneSelf THEN Rune(p0, 1)
        ELSE IF p0 < 194 \/ p0 > 244 THEN Rune(RuneError, 1)
        ELSE IF n < sz THEN Rune(RuneError, 1)
        ELSE IF At(p, 1) < lo \/ hi < At(p, 1) THEN Rune(RuneError, 1)
        ELSE IF sz <= 2 THEN Rune((p0 % 32) * 64 + (At(p, 1) % 64), 2)
        ELSE IF ~Cont(At(p, 2)) THEN Rune(RuneError, 1)
        ELSE IF sz <= 3
             THEN Rune((p0 % 16) * 4096 + (At(p, 1) % 64) * 64 + (At(p, 2) % 64), 3)
        ELSE IF ~Cont(At(p, 3)) THEN Rune(RuneError, 1)
        ELSE Rune((p0 % 8) * 262144 + (At(p, 1) % 64) * 4096
                      + (At(p, 2) % 64) * 64 + (At(p, 3) % 64), 4)

(* rwQuoted, the switch on an ASCII byte that is escaped: the bytes        *)
(* written and the count added for them.                                   *)
QuotedSwitch(b) ==
    CASE b = 92 \/ b = 34 -> [w |-> <<92, b>>, n |-> 2]
      [] b = 10 -> [w |-> <<92, 110>>, n |-> 2]
      [] b = 13 -> [w |-> <<92, 114>>, n |-> 2]
      [] OTHER -> [w |-> <<92, 117, 48, 48, hex(b \div 16), hex(b % 16)>>, n |-> 6]

(* rwQuoted, the loop "for i := 0; i < len(s);" with its start, n and the  *)
(* bytes written so far, and what follows the loop.                        *)
RECURSIVE QuotedLoop(_, _, _, _, _)
QuotedAscii(s, i, start, n, w, pre, esc) ==
    QuotedLoop(s, i + 1, i + 1, n + Len(pre) + esc.n, w \o pre \o esc.w)
QuotedRune(s, i, start, n, w, d) ==
    IF d.c = RuneError /\ d.size = 1 /\ start < i
    THEN QuotedLoop(s, i + d.size, i + d.size, n + (i - start) + 6,
                    w \o SubSeq(s, start + 1, i) \o <<92, 117, 102, 102, 102, 100>>)
    ELSE IF (d.c = 8232 \/ d.c = 8233) /\ start < i
    THEN QuotedLoop(s, i + d.size, start, n + (i - start) + 5 + 1,
                    w \o SubSeq(s, start + 1, i) \o <<92, 117, 50, 48, 50, hex(d.c % 16)>>)
    ELSE QuotedLoop(s, i + d.size, start, n, w)
QuotedLoop(s, i, start, n, w) ==
    IF i < Len(s)
    THEN IF At(s, i) < RuneSelf
         THEN IF 32 <= At(s, i) /\ At(s, i) \notin {92, 34, 60, 62, 38}
              THEN QuotedLoop(s, i + 1, start, n, w)
              ELSE QuotedAscii(s, i, start, n, w,
                               IF start < i THEN SubSeq(s, start + 1, i) ELSE <<>>,
                               QuotedSwitch(At(s, i)))
         ELSE QuotedRune(s, i, start, n, w, DecodeRune(Drop(s, i)))
    ELSE IF start < Len(s)
         THEN [n |-> n + (Len(s) - start) + 1, w |-> w \o Drop(s, start) \o <<34>>]
         ELSE [n |-> n + 1, w |-> w \o <<34>>]

rwQuoted(s) == QuotedLoop(s, 0, 0, 1, <<34>>)

(* strconv.AppendUint(dst[:0], u, 10) and strconv.AppendInt(dst[:0], i, 10) *)
(* of a 64-bit u or i: the decimal digits, found by dividing the eight     *)
(* bytes by ten.                                                           *)
RECURSIVE DivMod10(_, _, _)
DivMod10(x, rem, q) ==
    IF x = <<>> THEN [q |-> q, rem |-> rem]
    ELSE DivMod10(Tail(x), (rem * 256 + Head(x)) % 10,
                  Append(q, (rem * 256 + Head(x)) \div 10))
RECURSIVE Digits(_)
DigitsOf(d) == Append(Digits(d.q), 48 + d.rem)
Digits(x) == IF x = Zeros(Len(x)) THEN <<>> ELSE DigitsOf(DivMod10(x, 0, <<>>))
AppendUint(u) == IF u = Zeros(Len(u)) THEN <<48>> ELSE Digits(u)
AppendInt(i) == IF IsNeg(i) THEN <<45>> \o AppendUint(AddOne(Invert(i))) ELSE AppendUint(i)

(* base64.StdEncoding: what the encoder has written to dst once it is      *)
(* closed.  Its Write returns the number of bytes of data it was given.    *)
b64(x) ==
    IF x < 26 THEN 65 + x
    ELSE IF x < 52 THEN 97 + (x - 26)
    ELSE IF x < 62 THEN 48 + (x - 52)
    ELSE IF x = 62 THEN 43 ELSE 47
RECURSIVE Base64(_)
Base64(d) ==
    IF Len(d) = 0 THEN <<>>
    ELSE IF Len(d) = 1
    THEN <<b64(d[1] \div 4), b64((d[1] % 4) * 16), 61, 61>>
    ELSE IF Len(d) = 2
    THEN <<b64(d[1] \div 4), b64((d[1] % 4) * 16 + (d[2] \div 16)), b64((d[2] % 16) * 4), 61>>
    ELSE <<b64(d[1] \div 4), b64((d[1] % 4) * 16 + (d[2] \div 16)),
           b64((d[2] % 16) * 4 + (d[3] \div 64)), b64(d[3] % 64)>> \o Base64(Drop(d, 3))

(* Reader.NextType: io.EOF at the end of the stream, InvalidPrefixError    *)
(* for an unmapped lead byte.                                              *)
Reader_NextType(src) ==
    IF Len(src) = 0 THEN Ret("InvalidType", src, ErrEOF)
    ELSE IF getType(At(src, 0)) = "InvalidType"
         THEN Ret("InvalidType", src, InvalidPrefixError(At(src, 0)))
    ELSE Ret(NextType(src), src, ErrNone)

(* src.R.Next(n): the next n bytes of the stream, which it consumes *)
Reader_Next(src, n) ==
    IF Len(src) < n THEN Ret(Nil, src, ErrUnexpectedEOF)
    ELSE Ret(Take(src, n), Drop(src, n), ErrNone)

rwNil(src) ==
    IF Failed(ReadNilBytes(src)) THEN Wrote(0, <<>>, src, ReadNilBytes(src).err)
    ELSE Wrote(Len(null), null, ReadNilBytes(src).o, ErrNone)

rwBoolText(x) ==
    IF x.v THEN Wrote(4, <<116, 114, 117, 101>>, x.o, ErrNone)
    ELSE Wrote(5, <<102, 97, 108, 115, 101>>, x.o, ErrNone)
rwBool(src) ==
    IF Failed(ReadBoolBytes(src)) THEN Wrote(0, <<>>, src, ReadBoolBytes(src).err)
    ELSE rwBoolText(ReadBoolBytes(src))

rwScratch(scratch, src) == Wrote(Len(scratch), scratch, src, ErrNone)
rwInt(src) ==
    IF Failed(ReadInt64Bytes(src)) THEN Wrote(0, <<>>, src, ReadInt64Bytes(src).err)
    ELSE rwScratch(AppendInt(ReadInt64Bytes(src).v), ReadInt64Bytes(src).o)
rwUint(src) ==
    IF Failed(ReadUint64Bytes(src)) THEN Wrote(0, <<>>, src, ReadUint64Bytes(src).err)
    ELSE rwScratch(AppendUint(ReadUint64Bytes(src).v), ReadUint64Bytes(src).o)

(* rwExtension with no extension registered: a RawExtension is read and    *)
(* written as {"type:"<Type>,"data":"<base64 of Data>"}.  n counts the     *)
(* brace, the three strings, the digits, and nn of enc.Write.              *)
rwRawExtension(et, e) ==
    IF Failed(e) THEN Wrote(0, <<>>, e.o, e.err)
    ELSE Wrote(1 + 7 + Len(AppendInt(SignExtend(<<(et + 256) % 256>>, 8))) + 9 + Len(e.v) + 2,
               <<123>> \o <<34, 116, 121, 112, 101, 58, 34>>
                   \o AppendInt(SignExtend(<<(et + 256) % 256>>, 8))
                   \o <<44, 34, 100, 97, 116, 97, 34, 58, 34>>
                   \o Base64(e.v) \o <<34, 125>>,
               e.o, ErrNone)
rwExtension(src) ==
    IF Failed(peekExtension(src)) THEN Wrote(0, <<>>, src, peekExtension(src).err)
    ELSE rwRawExtension(peekExtension(src).v, ReadExtensionBytes(src, peekExtension(src).v))

(* rwString: the length from the header, then rwQuoted of the next read    *)
(* bytes of the stream.                                                    *)
rwStringBody(p) ==
    IF Failed(p) THEN Wrote(0, <<>>, p.o, p.err)
    ELSE Wrote(rwQuoted(p.v).n, rwQuoted(p.v).w, p.o, ErrNone)
rwStringRead(hdr, read) ==
    IF Failed(hdr) THEN Wrote(0, <<>>, hdr.o, hdr.err)
    ELSE rwStringBody(Reader_Next(hdr.o, read))
rwString(src) ==
    IF Len(src) < 1 THEN Wrote(0, <<>>, src, ErrEOF)
    ELSE IF isfixstr(At(src, 0)) THEN rwStringRead(Reader_Next(src, 1), rfixstr(At(src, 0)))
    ELSE CASE At(src, 0) = mstr8 -> rwStringRead(Reader_Next(src, 2), At(src, 1))
           [] At(src, 0) = mstr16 ->
                rwStringRead(Reader_Next(src, 3), bigUint16(Drop(src, 1)))
           [] At(src, 0) = mstr32 ->
                rwStringRead(Reader_Next(src, 5), bigUint32(Drop(src, 1)))
           [] OTHER -> Wrote(0, <<>>, src, badPrefix("StrType", At(src, 0)))

(* rwBytes: n counts the two quotes and nn of enc.Write *)
rwBytesBody(x) ==
    IF Failed(x) THEN Wrote(1, <<34>>, x.o, x.err)
    ELSE Wrote(1 + Len(x.v) + 1, <<34>> \o Base64(x.v) \o <<34>>, x.o, ErrNone)
rwBytes(src) == rwBytesBody(ReadBytesBytes(src, <<>>))

(* rwNext, rwMap and rwArray.  The loops carry the pairs or elements left, *)
(* comma, n and the bytes written so far.                                  *)
RECURSIVE rwNext(_), rwMapLoop(_, _, _, _, _), rwArrayLoop(_, _, _, _, _)

rwNextOf(t, src) ==
    CASE t = "StrType" -> rwString(src)
      [] t = "BinType" -> rwBytes(src)
      [] t = "MapType" ->
            IF Failed(ReadMapHeaderBytes(src))
            THEN Wrote(0, <<>>, src, ReadMapHeaderBytes(src).err)
            ELSE IF ReadMapHeaderBytes(src).v = 0
            THEN Wrote(2, <<123, 125>>, ReadMapHeaderBytes(src).o, ErrNone)
            ELSE rwMapLoop(ReadMapHeaderBytes(src).o, ReadMapHeaderBytes(src).v,
                           FALSE, 1, <<123>>)
      [] t = "ArrayType" ->
            IF Failed(ReadArrayHeaderBytes(src))
            THEN Wrote(0, <<91>>, src, ReadArrayHeaderBytes(src).err)
            ELSE rwArrayLoop(ReadArrayHeaderBytes(src).o, ReadArrayHeaderBytes(src).v,
                             FALSE, 0, <<91>>)
      [] t = "BoolType" -> rwBool(src)
      [] t = "IntType" -> rwInt(src)
      [] t = "UintType" -> rwUint(src)
      [] t = "NilType" -> rwNil(src)
      [] t \in {"ExtensionType", "Complex64Type", "Complex128Type"} -> rwExtension(src)
      [] t \in {"Float64Type", "Float32Type", "TimeType"} ->
            Wrote(0, <<>>, src, ErrNotFollowed)
      [] OTHER -> Wrote(0, <<>>, src, ErrNone)

rwNext(src) ==
    IF Failed(Reader_NextType(src)) THEN Wrote(0, <<>>, src, Reader_NextType(src).err)
    ELSE rwNextOf(Reader_NextType(src).v, src)

(* rwMap, one turn of the loop: the key has been read and quoted (q), the  *)
(* colon written, and rwNext has written the value (x).                    *)
rwMapVal(left, n, w, x) ==
    IF Failed(x) THEN Wrote(n + x.v.n, w \o x.v.w, x.o, x.err)
    ELSE rwMapLoop(x.o, left - 1, TRUE, n + x.v.n, w \o x.v.w)
rwMapKey(left, n, w, field, q) ==
    IF Failed(field) THEN Wrote(n, w, field.o, field.err)
    ELSE rwMapVal(left, n + q.n + 1, w \o q.w \o <<58>>, rwNext(field.o))
rwMapField(left, n, w, field) ==
    rwMapKey(left, n, w, field, IF Failed(field) THEN rwQuoted(<<>>) ELSE rwQuoted(field.v))
rwMapLoop(src, left, comma, n, w) ==
    IF left > 0
    THEN IF comma
         THEN rwMapField(left, n + 1, w \o <<44>>, ReadMapKeyZC(src))
         ELSE rwMapField(left, n, w, ReadMapKeyZC(src))
    ELSE Wrote(n + 1, w \o <<125>>, src, ErrNone)

rwArrayElem(left, n, w, x) ==
    IF Failed(x) THEN Wrote(n + x.v.n, w \o x.v.w, x.o, x.err)
    ELSE rwArrayLoop(x.o, left - 1, TRUE, n + x.v.n, w \o x.v.w)
rwArrayLoop(src, left, comma, n, w) ==
    IF left > 0
    THEN IF comma
         THEN rwArrayElem(left, n + 1, w \o <<44>>, rwNext(src))
         ELSE rwArrayElem(left, n, w, rwNext(src))
    ELSE Wrote(n + 1, w \o <<93>>, src, ErrNone)

(* WriteToJSON: "for err == nil { nn, err = rwNext(j, r); n += int64(nn) }" *)
(* and the return, io.EOF being no error.                                  *)
RECURSIVE WriteLoop(_, _)
WriteNext(n, w, x) ==
    IF Ok(x) THEN WriteLoop(x.o, [n |-> n + x.v.n, w |-> w \o x.v.w])
    ELSE IF x.err # ErrEOF THEN Wrote(n + x.v.n, w \o x.v.w, x.o, x.err)
    ELSE Wrote(n + x.v.n, w \o x.v.w, x.o, ErrNone)
WriteLoop(src, acc) == WriteNext(acc.n, acc.w, rwNext(src))
WriteToJSON(src) == WriteLoop(src, [n |-> 0, w |-> <<>>])

----------------------------------------------------------------------------
(* rwQuoted on strings of up to MaxUnits units: plain and escaped ASCII    *)
(* bytes, valid runes of two, three and four bytes, U+2028 and U+2029, and *)
(* bytes that are no valid encoding (a lone lead or continuation byte, an  *)
(* overlong form, a surrogate).                                            *)

MaxUnits == 3

UnitSamples ==
    {<<97>>, <<34>>, <<92>>, <<10>>, <<13>>, <<1>>, <<31>>, <<60>>, <<62>>, <<38>>, <<127>>,
     <<195, 169>>, <<226, 130, 172>>, <<240, 159, 152, 128>>, <<239, 191, 189>>,
     <<226, 128, 168>>, <<226, 128, 169>>,
     <<255>>, <<128>>, <<195>>, <<192, 128>>, <<237, 160, 128>>}

RECURSIVE UnitStrings(_)
UnitStrings(k) ==
    IF k = 0 THEN {<<>>}
    ELSE UnitStrings(k - 1) \cup {u \o t : u \in UnitSamples, t \in UnitStrings(k - 1)}

InitQuoted == \E x \in UnitStrings(MaxUnits) : Start(x, <<>>)

CallrwQuoted == Call("rwQuoted", Wrote(rwQuoted(buf).n, rwQuoted(buf).w, <<>>, ErrNone))

NextQuoted == CallrwQuoted

SpecQuoted == InitQuoted /\ [][NextQuoted]_vars

(* The translation of the unit at the head of s, a byte or a rune d. *)
TranslateUnit(s, d) ==
    IF s[1] < 128
    THEN CASE s[1] = 34 \/ s[1] = 92 -> <<92, s[1]>>
           [] s[1] = 10 -> <<92, 110>>
           [] s[1] = 13 -> <<92, 114>>
           [] s[1] < 32 \/ s[1] \in {60, 62, 38} ->
                <<92, 117, 48, 48, hex(s[1] \div 16), hex(s[1] % 16)>>
           [] OTHER -> <<s[1]>>
    ELSE IF d.c = RuneError /\ d.size = 1 THEN <<92, 117, 102, 102, 102, 100>>
    ELSE IF d.c = 8232 THEN <<92, 117, 50, 48, 50, 56>>
    ELSE IF d.c = 8233 THEN <<92, 117, 50, 48, 50, 57>>
    ELSE Take(s, d.size)

RECURSIVE Translate(_)
Translate(s) ==
    IF s = <<>> THEN <<>>
    ELSE TranslateUnit(s, DecodeRune(s)) \o Translate(Drop(s, DecodeRune(s).size))

(* C12: rwQuoted writes a double quote, the translation of each unit of s  *)
(* once and in order, and a double quote, wherever the unit stands in s.   *)
C12_QuotedTranslatesEachUnitOnce ==
    op = "rwQuoted" => ret.v.w = <<34>> \o Translate(buf) \o <<34>>

----------------------------------------------------------------------------
(* WriteToJSON on streams of well-formed objects: nil, bool, every integer *)
(* form, every str, bin and extension form, arrays and str-keyed maps      *)
(* nested MaxDepth deep; one object, an object followed by another, or     *)
(* none.                                                                   *)

NoText == {mfloat32, mfloat64}
JsonLeaves ==
    {x \in Leaves : x[1] \notin NoText /\ ~(x[1] = mext8 /\ x[3] = TimeExtension)}
JsonSample == {x \in Sample : x[1] \notin NoText} \cup {<<mint16>> \o Pay(2)}
RECURSIVE JsonComposites(_)
JsonComposites(d) ==
    IF d = 1 THEN PlainWide(JsonSample) ELSE PlainDeep(JsonComposites(d - 1))
JsonObjects(d) ==
    JsonLeaves \cup PlainWide(JsonLeaves) \cup UNION {JsonComposites(i) : i \in 2..d}

InitJSON ==
    \/ Start(<<>>, <<>>)
    \/ \E x \in JsonObjects(MaxDepth) : Start(x, <<x>>)
    \/ \E x \in JsonObjects(MaxDepth) : Start(x \o <<mfixarray + 1, mnil>>, <<x, <<mfixarray + 1, mnil>> >>)

CallWriteToJSON == Call("WriteToJSON", WriteToJSON(buf))

NextJSON == CallWriteToJSON

SpecJSON == InitJSON /\ [][NextJSON]_vars

(* C11: on a stream of well-formed objects WriteToJSON succeeds, and the n *)
(* it returns is the number of bytes that were written to the destination. *)
C11_WriteToJSONCountsBytesWritten ==
    op = "WriteToJSON" =>
        /\ Ok(ret)
        /\ ret.v.n = Len(ret.v.w)


(***************************************************************************)
(* The size generator (package gen).  The text it emits is kept as the     *)
(* sequence of the pieces handed to the printer, and an expression as the  *)
(* sequence of its lexical tokens, so that what a piece follows, whether   *)
(* an expression is well formed and what the emitted body computes can     *)
(* all be read off the output.                                             *)
(***************************************************************************)

\* The sizeState constants.
assign == 0
add == 1
expr == 2
SizeStates == {assign, add, expr}

\* A name of the generated code: the variable at a path of the element tree
\* (form "var"), a conversion of it to its base type ("cast"), a reference to
\* it ("ref") or a fresh local declared for it ("tmp").
Name(path, form) == [path |-> path, form |-> form]
NoName == Name(<<>>, "none")

\* The tokens of an expression: an integer literal, a named constant of the
\* codec library, an operator or parenthesis, and the operands len(v),
\* v.Len(), msgp.GuessSize(v) and v.Msgsize().
Tok(t, n, s, v) == [t |-> t, n |-> n, s |-> s, v |-> v]
Num(n) == Tok("num", n, "", NoName)
Lib(s) == Tok("msgp", 0, s, NoName)
Sym(s) == Tok("sym", 0, s, NoName)
Operand(s, v) == Tok("operand", 0, s, v)
Plus == Sym("+")
Times == Sym("*")
Open == Sym("(")
Close == Sym(")")

\* strconv.Itoa of a length: a one-token expression.
Itoa(n) == <<Num(n)>>

\* A piece of emitted text: what it is, its expression and the names in it.
Piece(o, e, v) == [op |-> o, e |-> e, v |-> v]

\* The printer: the pieces written, the error flag, and the number of writes
\* the underlying writer still accepts (NoLimit: it never fails).
NoLimit == 0 - 1
printer(out, err, room) == [out |-> out, err |-> err, room |-> room]
ok(p) == ~p.err
print(p, piece) ==
    IF ~ok(p) THEN p
    ELSE IF p.room = 0 THEN [p EXCEPT !.err = TRUE]
    ELSE [p EXCEPT !.out = Append(@, piece),
                   !.room = IF @ = NoLimit THEN @ ELSE @ - 1]

\* sizes: a generator over a writer, in state assign.  trace records the
\* state at the points of a visit the claims speak of.
sizeGen(p, state, trace) == [p |-> p, state |-> state, trace |-> trace]
gen_sizes(room) == sizeGen(printer(<<>>, FALSE, room), assign, <<>>)

builtinSize(typ) == <<Lib(typ)>>

addConstantAlwaysAdds(s, sz) ==
    IF ~ok(s.p) THEN s
    ELSE [s EXCEPT !.p = print(@, Piece("s +=", sz, <<>>)), !.state = expr]

addConstant(s, sz) ==
    IF ~ok(s.p) THEN s
    ELSE CASE s.state = assign ->
                [s EXCEPT !.p = print(@, Piece("s =", sz, <<>>)), !.state = expr]
           [] s.state = add ->
                [s EXCEPT !.p = print(@, Piece("s +=", sz, <<>>)), !.state = expr]
           [] s.state = expr ->
                [s EXCEPT !.p = print(@, Piece("+", sz, <<>>))]
           [] OTHER -> [s EXCEPT !.state = "unknown size state"]

(***************************************************************************)
(* SpecAdd: a generator in any state, over a printer that is sound, about  *)
(* to fail or already failed, is handed up to MaxTerms terms.              *)
(***************************************************************************)
MaxTerms == 3
Terms ==
    {builtinSize("Int32"), Itoa(1), <<Lib("StringPrefix"), Plus, Operand("len", Name(<<1>>, "var"))>>}
Rooms == {NoLimit} \cup (0..MaxTerms)

InitAdd ==
    \E st \in SizeStates, e \in BOOLEAN, room \in Rooms :
        /\ buf = <<>>
        /\ b0 = <<>>
        /\ objs = <<>>
        /\ call = <<"init", NoRet>>
        /\ calls = 0
        /\ r = NoRaw
        /\ into = <<>>
        /\ frames = <<>>
        /\ elem = NoElem
        /\ gen = sizeGen(printer(<<>>, e, room), st, <<>>)

CalladdConstant ==
    /\ calls < MaxTerms
    /\ \E sz \in Terms :
        /\ gen' = addConstant(gen, sz)
        /\ call' = <<"addConstant", Ret(sz, <<>>, ErrNone)>>
    /\ calls' = calls + 1
    /\ UNCHANGED <<buf, b0, objs, r, into, frames, elem>>

NextAdd == CalladdConstant

SpecAdd == InitAdd /\ [][NextAdd]_vars

\* What the table of the three states gives for a term T in state st.
Emits(st, T) ==
    CASE st = assign -> Piece("s =", T, <<>>)
      [] st = add -> Piece("s +=", T, <<>>)
      [] st = expr -> Piece("+", T, <<>>)

(* C16: addConstant follows the table: in assign it emits "s = T", in add  *)
(* "s += T", in expr " + T", and leaves the state expr; with the printer   *)
(* already in its error state it emits nothing and keeps the state.        *)
C16_addConstantTable ==
    [][op' = "addConstant" =>
        /\ (ok(gen.p) /\ gen.p.room # 0) =>
              /\ gen'.p.out = Append(gen.p.out, Emits(gen.state, ret'.v))
              /\ gen'.state = expr
              /\ ok(gen'.p)
        /\ ~ok(gen.p) => gen' = gen]_vars

C16_Witness ==
    /\ op = "addConstant"
    /\ Len(gen.p.out) = 3
    /\ gen.p.out[1].op = "s +="
    /\ gen.p.out[2].op = "+"
    /\ gen.p.out[3].op = "+"
    /\ gen.state = expr


(***************************************************************************)
(* Element trees.  One record shape serves every Elem: kind says which     *)
(* type it is, Value is the primitive of a BaseElem, Els holds the one     *)
(* child of a Slice or Array (its Els) and of a Ptr or Map (its Value),    *)
(* Fields the fields of a Struct.  The names of the variables are the      *)
(* paths of the tree, as the parser would have set them.                   *)
(***************************************************************************)
Elem(kind, name, value, shim, size, tuple, fields, els) ==
    [kind |-> kind, Varname |-> name, Value |-> value,
     Convert |-> shim # "none", ShimMode |-> IF shim = "convert" THEN "Convert" ELSE "Cast",
     Size |-> size, AsTuple |-> tuple, Fields |-> fields, Els |-> els,
     Index |-> Name(name.path \o <<0>>, "var"),
     KeyIndx |-> Name(name.path \o <<0>>, "var"),
     ValIndx |-> Name(name.path \o <<1>>, "var")]
Field(tag, e) == [fieldTag |-> tag, fieldElem |-> e]

BaseElem(path, value, shim) == Elem("BaseElem", Name(path, "var"), value, shim, 0, FALSE, <<>>, <<>>)
Ptr(path, e) == Elem("Ptr", Name(path, "var"), "", "none", 0, FALSE, <<>>, <<e>>)
Slice(path, e) == Elem("Slice", Name(path, "var"), "", "none", 0, FALSE, <<>>, <<e>>)
Array(path, size, e) == Elem("Array", Name(path, "var"), "", "none", size, FALSE, <<>>, <<e>>)
Map(path, e) == Elem("Map", Name(path, "var"), "", "none", 0, FALSE, <<>>, <<e>>)
Struct(path, tuple, fields) == Elem("Struct", Name(path, "var"), "", "none", 0, tuple, fields, <<>>)

\* BaseName: the name of the base type, which for the primitives here is
\* the name of the primitive.  toBaseConvert: the value converted to it.
BaseName(b) == b.Value
toBaseConvert(b) == Name(b.Varname.path, "cast")
randIdent(b) == Name(b.Varname.path, "tmp")

\* The codec library's header writers, by the wire grammar.
AppendArrayHeader(b, n) ==
    b \o (IF n <= 15 THEN <<mfixarray + n>>
          ELSE IF n <= 65535 THEN <<marray16>> \o be16(n)
          ELSE <<marray32>> \o be32(n))
AppendMapHeader(b, n) ==
    b \o (IF n <= 15 THEN <<mfixmap + n>>
          ELSE IF n <= 65535 THEN <<mmap16>> \o be16(n)
          ELSE <<mmap32>> \o be32(n))
AppendString(b, s) ==
    b \o (IF Len(s) <= 31 THEN <<mfixstr + Len(s)>>
          ELSE IF Len(s) <= 255 THEN <<mstr8, Len(s)>>
          ELSE IF Len(s) <= 65535 THEN <<mstr16>> \o be16(Len(s))
          ELSE <<mstr32>> \o be32(Len(s))) \o s

\* The printer's other operations, each one piece of text.
printf(s, piece) == [s EXCEPT !.p = print(@, piece)]
comment(s) == printf(s, Piece("//", <<>>, <<>>))
declare(s, name) == printf(s, Piece("var", <<>>, <<name>>))
closeBlock(s) == printf(s, Piece("}", <<>>, <<>>))
nakedReturn(s) == printf(s, Piece("return }", <<>>, <<>>))

setState(s, state) == [s EXCEPT !.state = state]
\* Records the state at a point of the visit (not part of the program).
at(s, point) == [s EXCEPT !.trace = Append(@, <<point, s.state>>)]

lenExpr(sl) == <<Operand("len", sl.Varname)>>

fixedSizeCountsString(p) == p \notin {"Intf", "Ext", "IDENT", "Bytes"}

fixedSize(p) ==
    p \notin {"Intf", "Ext", "IDENT", "Bytes", "String"}

stripRef(s) == IF s.form = "ref" THEN Name(s.path, "var") ELSE s

Sprintf_mul(n, str) == <<Open>> \o n \o <<Times, Open>> \o str \o <<Close, Close>>

Fixed(str, isok) == [str |-> str, ok |-> isok]
NotFixed == Fixed(<<>>, FALSE)

RECURSIVE fixedSizeExpr(_), fixedStructStr(_, _, _), fixedStructHdr(_, _, _)
fixedArray(e, sub) ==
    IF sub.ok THEN Fixed(Sprintf_mul(Itoa(e.Size), sub.str), TRUE) ELSE NotFixed
\* The first loop over the fields: str so far, or not fixed.
fixedStructStep(e, i, str, fs) ==
    IF fs.ok
    THEN fixedStructStr(e, i + 1, IF str = <<>> THEN fs.str ELSE str \o <<Plus>> \o fs.str)
    ELSE NotFixed
fixedStructStr(e, i, str) ==
    IF i > Len(e.Fields) THEN Fixed(str, TRUE)
    ELSE fixedStructStep(e, i, str, fixedSizeExpr(e.Fields[i].fieldElem))
\* The second loop: the header's length plus every encoded tag's.
fixedStructHdr(e, i, hdrlen) ==
    IF i > Len(e.Fields) THEN hdrlen
    ELSE fixedStructHdr(e, i + 1, hdrlen + Len(AppendString(<<>>, e.Fields[i].fieldTag)))
fixedStruct(e, body) ==
    IF body.ok
    THEN Fixed(Itoa(fixedStructHdr(e, 1, Len(AppendMapHeader(<<>>, Len(e.Fields)))))
                   \o <<Plus>> \o body.str, TRUE)
    ELSE NotFixed
fixedSizeExpr(e) ==
    CASE e.kind = "Array" -> fixedArray(e, fixedSizeExpr(e.Els[1]))
      [] e.kind = "BaseElem" ->
            IF fixedSize(e.Value) THEN Fixed(builtinSize(BaseName(e)), TRUE) ELSE NotFixed
      [] e.kind = "Struct" -> fixedStruct(e, fixedStructStr(e, 1, <<>>))
      [] OTHER -> NotFixed

baseSizeExpr(value, vname, basename) ==
    CASE value = "Ext" -> <<Lib("ExtensionPrefix"), Plus, Operand("Len", stripRef(vname))>>
      [] value = "Intf" -> <<Operand("GuessSize", vname)>>
      [] value = "IDENT" -> <<Operand("Msgsize", vname)>>
      [] value = "Bytes" -> <<Lib("BytesPrefix"), Plus, Operand("len", vname)>>
      [] value = "String" -> <<Lib("StringPrefix"), Plus, Operand("len", vname)>>
      [] OTHER -> builtinSize(basename)

gBaseConvert(s, b, vname) ==
    setState(
        printf(
            printf(declare(setState(s, add), vname), Piece("_ =", <<>>, <<b.Varname>>)),
            Piece("s +=", baseSizeExpr(b.Value, vname, BaseName(b)), <<>>)),
        expr)
gBase(s, b) ==
    IF ~ok(s.p) THEN s
    ELSE IF b.Convert /\ b.ShimMode = "Convert" THEN gBaseConvert(s, b, randIdent(b))
    ELSE addConstant(s, baseSizeExpr(b.Value,
                                     IF b.Convert THEN toBaseConvert(b) ELSE b.Varname,
                                     BaseName(b)))

RECURSIVE next(_, _), gStruct(_, _), gStructTuple(_, _, _), gStructFields(_, _, _)
RECURSIVE gPtr(_, _), gSlice(_, _), gArray(_, _), gMap(_, _), rangeBlock(_, _, _, _)
RECURSIVE gSliceRest(_, _, _), gArrayRest(_, _, _)

gStructTuple(s, st, i) ==
    IF i > Len(st.Fields) \/ ~ok(s.p) THEN s
    ELSE gStructTuple(next(s, st.Fields[i].fieldElem), st, i + 1)
gStructFields(s, st, i) ==
    IF i > Len(st.Fields) THEN s
    ELSE gStructFields(
            next(addConstant(s, Itoa(Len(AppendString(<<>>, st.Fields[i].fieldTag)))),
                 st.Fields[i].fieldElem),
            st, i + 1)
gStruct(s, st) ==
    IF ~ok(s.p) THEN s
    ELSE IF st.AsTuple
    THEN gStructTuple(addConstant(s, Itoa(Len(AppendArrayHeader(<<>>, Len(st.Fields))))), st, 1)
    ELSE gStructFields(addConstant(s, Itoa(Len(AppendMapHeader(<<>>, Len(st.Fields))))), st, 1)

gPtrKeepsState(s, p) ==
    at(closeBlock(
           next(at(printf(setState(s, add), Piece("if nil else", <<>>, <<p.Varname>>)), "body"),
                p.Els[1])),
       "return")

gPtr(s, p) ==
    at(closeBlock(
           setState(
               next(at(printf(setState(s, add), Piece("if nil else", <<>>, <<p.Varname>>)), "body"),
                    p.Els[1]),
               add)),
       "return")

rangeBlock(idx, iter, s, inner) ==
    closeBlock(next(at(printf(s, Piece("for", <<>>, <<idx, iter>>)), "body"), inner))

gSliceRest(s, sl, fixed) ==
    IF fixed.ok THEN addConstant(s, Sprintf_mul(lenExpr(sl), fixed.str))
    ELSE at(setState(rangeBlock(sl.Index, sl.Varname, setState(s, add), sl.Els[1]), add),
            "return")
gSlice(s, sl) ==
    IF ~ok(s.p) THEN s
    ELSE gSliceRest(addConstant(s, builtinSize("ArrayHeader")), sl, fixedSizeExpr(sl.Els[1]))

gArrayRest(s, a, fixed) ==
    IF fixed.ok THEN addConstant(s, fixed.str)
    ELSE at(setState(rangeBlock(a.Index, a.Varname, setState(s, add), a.Els[1]), add),
            "return")
gArray(s, a) ==
    IF ~ok(s.p) THEN s
    ELSE gArrayRest(addConstant(s, builtinSize("ArrayHeader")), a, fixedSizeExpr(a))

gMapOpen(s, m) ==
    at(setState(
           printf(
               printf(
                   printf(
                       printf(addConstant(s, builtinSize("MapHeader")),
                              Piece("if not nil", <<>>, <<m.Varname>>)),
                       Piece("for kv", <<>>, <<m.KeyIndx, m.ValIndx, m.Varname>>)),
                   Piece("_ =", <<>>, <<m.ValIndx>>)),
               Piece("s +=", <<Lib("StringPrefix"), Plus, Operand("len", m.KeyIndx)>>, <<>>)),
           expr),
       "map body")
gMap(s, m) ==
    at(setState(closeBlock(closeBlock(next(gMapOpen(s, m), m.Els[1]))), add), "return")

next(s, e) ==
    CASE e.kind = "Map" -> gMap(s, e)
      [] e.kind = "Struct" -> gStruct(s, e)
      [] e.kind = "Slice" -> gSlice(s, e)
      [] e.kind = "Array" -> gArray(s, e)
      [] e.kind = "Ptr" -> gPtr(s, e)
      [] e.kind = "BaseElem" -> gBase(s, e)

\* applyAll without passes and isPrintable on these trees change nothing.
Execute(s, p) ==
    IF ~ok(s.p) THEN s
    ELSE nakedReturn(
            next(setState(printf(comment(s), Piece("func", <<>>, <<p.Varname>>)), assign), p))


(***************************************************************************)
(* SpecGen: Execute runs once over an element tree nested up to MaxNest    *)
(* deep, on a writer that never fails; and over a tree one level less     *)
(* deep, on a writer that fails after up to MaxWrites writes.              *)
(***************************************************************************)
MaxNest == 2
MaxWrites == 6
ArrayLen == 2

BaseElems(path) ==
    {BaseElem(path, "Int32", shim) : shim \in {"none", "cast", "convert"}}
    \cup {BaseElem(path, "String", shim) : shim \in {"none", "cast", "convert"}}
    \cup {BaseElem(path, "Bytes", shim) : shim \in {"none", "convert"}}
    \cup {BaseElem(path, value, "none") : value \in {"Float64", "Intf", "IDENT"}}
    \cup {BaseElem(path, "Ext", "none"), [BaseElem(path, "Ext", "none") EXCEPT !.Varname.form = "ref"]}

\* The structs around a child: alone, or beside a fixed or a string field.
StructsOf(path, e1, e2) ==
    {Struct(path, tuple, fields) :
        tuple \in BOOLEAN,
        fields \in {<<Field(<<97>>, e1)>>,
                    <<Field(<<97>>, e1), Field(<<98, 98>>, BaseElem(path \o <<2>>, "Int32", "none"))>>,
                    <<Field(<<97>>, BaseElem(path \o <<1>>, "String", "convert")), Field(<<98, 98>>, e2)>>}}

RECURSIVE Elems(_, _)
Around(d, path) ==
    UNION {{Ptr(path, e), Slice(path, e), Array(path, ArrayLen, e), Map(path, e)} :
              e \in Elems(d - 1, path \o <<1>>)}
    \cup UNION {StructsOf(path, e, [e EXCEPT !.Varname.path = path \o <<2>>]) :
                   e \in Elems(d - 1, path \o <<1>>)}
Elems(d, path) ==
    BaseElems(path)
    \cup {Struct(path, tuple, <<>>) : tuple \in BOOLEAN}
    \cup (IF d = 0 THEN {} ELSE Around(d, path))

StartGen(e, room) ==
    /\ buf = <<>>
    /\ b0 = <<>>
    /\ objs = <<>>
    /\ call = <<"init", NoRet>>
    /\ calls = 0
    /\ r = NoRaw
    /\ into = <<>>
    /\ frames = <<>>
    /\ elem = e
    /\ gen = gen_sizes(room)

InitGen ==
    \/ \E e \in Elems(MaxNest, <<>>) : StartGen(e, NoLimit)
    \/ \E e \in Elems(MaxNest - 1, <<>>), room \in 0..MaxWrites : StartGen(e, room)

CallExecute ==
    /\ op = "init"
    /\ gen' = Execute(gen, elem)
    /\ call' = <<"Execute", Ret(<<>>, <<>>, ErrNone)>>
    /\ UNCHANGED <<buf, b0, objs, calls, r, into, frames, elem>>

NextGen == CallExecute

SpecGen == InitGen /\ [][NextGen]_vars

out == gen.p.out
Executed == op = "Execute"

\* The pieces that are the right-hand side of an assignment to s.
RightHandSide == {"s =", "s +=", "+"}

(* C20: a continuation " + T" directly follows the right-hand side of an   *)
(* assignment to s; the state is add when gPtr, gMap or a looping gSlice   *)
(* or gArray returns and on entry to the blocks they open, and expr in the *)
(* map loop's body after its "s +=".                                       *)
C20_ContinuationFollowsRightHandSide ==
    Executed =>
        /\ \A i \in 1..Len(out) :
              out[i].op = "+" => i > 1 /\ out[i - 1].op \in RightHandSide
        /\ \A i \in 1..Len(gen.trace) :
              gen.trace[i][2] = IF gen.trace[i][1] = "map body" THEN expr ELSE add

C20_Witness ==
    /\ Executed
    /\ elem.kind = "Map"
    /\ elem.Els[1].kind = "Struct"
    /\ Len(out) = 17
    /\ out[7].op = "s +="
    /\ out[8].op = "+"
    /\ out[10].op = "var"
    /\ out[12].op = "s +="
    /\ out[13].op = "+"
    /\ out[15].op = "}"
    /\ gen.trace = <<<<"map body", expr>>, <<"return", add>> >>


\* An expression is well formed when it starts with what can start one and
\* ends with what can end one, every operator and opening parenthesis is
\* followed by an operand or "(", every operand and ")" by an operator or
\* ")", and the parentheses balance.
IsOperand(t) == t.t \in {"num", "msgp", "operand"}
Begins(t) == IsOperand(t) \/ t = Open
Ends(t) == IsOperand(t) \/ t = Close
Count(e, i, t) == Cardinality({j \in 1..i : e[j] = t})
Balanced(e) ==
    /\ \A i \in 1..Len(e) : Count(e, i, Close) <= Count(e, i, Open)
    /\ Count(e, Len(e), Close) = Count(e, Len(e), Open)
WellFormed(e) ==
    /\ Len(e) > 0
    /\ Begins(e[1])
    /\ Ends(e[Len(e)])
    /\ \A i \in 1..(Len(e) - 1) : Ends(e[i]) = ~Begins(e[i + 1])
    /\ Balanced(e)

(* C14: every expression the generator emits is well formed, in the       *)
(* statements addConstant produces and in what fixedSizeExpr returns.      *)
C14_ExpressionsWellFormed ==
    Executed =>
        /\ fixedSizeExpr(elem).ok => WellFormed(fixedSizeExpr(elem).str)
        /\ \A i \in 1..Len(out) : out[i].op \in RightHandSide => WellFormed(out[i].e)


\* Whether a len() call stands in an expression.
HasLen(e) == \E i \in 1..Len(e) : e[i].t = "operand" /\ e[i].s = "len"
Branching == {"if nil else", "if not nil", "for", "for kv"}

Inst(isnil, n, wire, kids, keys) ==
    [isnil |-> isnil, n |-> n, wire |-> wire, kids |-> kids, keys |-> keys]

MaxFieldLen == 5

\* The sizes the codec library declares, and the lengths the encodings of
\* the fixed-width primitives can take.
msgp_Size(name) ==
    CASE name = "Nil" -> 1
      [] name = "Int32" -> 5
      [] name = "Float64" -> 9
      [] name = "ArrayHeader" -> 5
      [] name = "MapHeader" -> 5
      [] name = "StringPrefix" -> 5
      [] name = "BytesPrefix" -> 5
      [] name = "ExtensionPrefix" -> 6
WireLens(value) ==
    CASE value = "Int32" -> {1, 2, 3, 5}
      [] value = "Float64" -> {9}
      [] OTHER -> {}

RECURSIVE Instances(_), FieldInstances(_, _)
FieldInstances(fields, i) ==
    IF i > Len(fields) THEN {<<>>}
    ELSE {<<x>> \o t : x \in Instances(fields[i].fieldElem), t \in FieldInstances(fields, i + 1)}
Rows(S, lens) == {t \in Seqs(S, MaxElems) : Len(t) \in lens}
Instances(e) ==
    CASE e.kind = "BaseElem" ->
            IF e.Value \in {"String", "Bytes"}
            THEN {Inst(FALSE, n, 0, <<>>, <<>>) : n \in {0, MaxFieldLen}}
            ELSE {Inst(FALSE, 0, w, <<>>, <<>>) : w \in WireLens(e.Value)}
      [] e.kind = "Ptr" ->
            {Inst(TRUE, 0, 0, <<>>, <<>>)}
            \cup {Inst(FALSE, 0, 0, <<x>>, <<>>) : x \in Instances(e.Els[1])}
      [] e.kind = "Slice" ->
            {Inst(FALSE, Len(t), 0, t, <<>>) : t \in Rows(Instances(e.Els[1]), 0..MaxElems)}
      [] e.kind = "Array" ->
            {Inst(FALSE, Len(t), 0, t, <<>>) : t \in Rows(Instances(e.Els[1]), {e.Size})}
      [] e.kind = "Map" ->
            {Inst(TRUE, 0, 0, <<>>, <<>>)}
            \cup {Inst(FALSE, Len(t), 0, t, [i \in 1..Len(t) |-> i]) :
                     t \in Rows(Instances(e.Els[1]), 0..MaxElems)}
      [] e.kind = "Struct" ->
            {Inst(FALSE, 0, 0, t, <<>>) : t \in FieldInstances(e.Fields, 1)}

\* The bytes the encoding of v takes, by the wire grammar: the shortest
\* header for every length, a nil pointer as nil, a nil map as an empty map.
Text(n) == [i \in 1..n |-> 97]
AppendBytes(b, s) ==
    b \o (IF Len(s) <= 255 THEN <<mbin8, Len(s)>>
          ELSE IF Len(s) <= 65535 THEN <<mbin16>> \o be16(Len(s))
          ELSE <<mbin32>> \o be32(Len(s))) \o s
RECURSIVE EncLen(_, _), EncKids(_, _, _)
EncKids(e, v, i) ==
    IF i > Len(v.kids) THEN 0
    ELSE EncKids(e, v, i + 1)
         + CASE e.kind = "Struct" ->
                    (IF e.AsTuple THEN 0 ELSE Len(AppendString(<<>>, e.Fields[i].fieldTag)))
                    + EncLen(e.Fields[i].fieldElem, v.kids[i])
             [] e.kind = "Map" ->
                    Len(AppendString(<<>>, Text(v.keys[i]))) + EncLen(e.Els[1], v.kids[i])
             [] OTHER -> EncLen(e.Els[1], v.kids[i])
EncLen(e, v) ==
    CASE e.kind = "BaseElem" ->
            IF e.Value = "String" THEN Len(AppendString(<<>>, Text(v.n)))
            ELSE IF e.Value = "Bytes" THEN Len(AppendBytes(<<>>, Text(v.n)))
            ELSE v.wire
      [] e.kind = "Ptr" -> IF v.isnil THEN 1 ELSE EncLen(e.Els[1], v.kids[1])
      [] e.kind \in {"Slice", "Array"} ->
            Len(AppendArrayHeader(<<>>, Len(v.kids))) + EncKids(e, v, 1)
      [] e.kind = "Map" -> Len(AppendMapHeader(<<>>, Len(v.kids))) + EncKids(e, v, 1)
      [] e.kind = "Struct" ->
            (IF e.AsTuple THEN Len(AppendArrayHeader(<<>>, Len(v.kids)))
             ELSE Len(AppendMapHeader(<<>>, Len(v.kids)))) + EncKids(e, v, 1)

\* The value a name stands for: the walk from the root down the path,
\* taking in every loop (sel) the entry the loop is at; index 0 under a map
\* is the key.  A fresh local holds its zero value.
RECURSIVE Walk(_, _, _, _)
Walk(v, path, i, sel) ==
    IF i > Len(path) THEN v
    ELSE IF SubSeq(path, 1, i - 1) \in DOMAIN sel
    THEN IF path[i] = 0
         THEN Inst(FALSE, v.keys[sel[SubSeq(path, 1, i - 1)]], 0, <<>>, <<>>)
         ELSE Walk(v.kids[sel[SubSeq(path, 1, i - 1)]], path, i + 1, sel)
    ELSE Walk(v.kids[path[i]], path, i + 1, sel)
ValueOf(name, v, sel) ==
    IF name.form = "tmp" THEN Inst(FALSE, 0, 0, <<>>, <<>>) ELSE Walk(v, name.path, 1, sel)

\* The value of an expression: sums of products of operands and
\* parenthesised expressions.
TokenValue(t, v, sel) ==
    CASE t.t = "num" -> t.n
      [] t.t = "msgp" -> msgp_Size(t.s)
      [] t.t = "operand" /\ t.s = "len" -> ValueOf(t.v, v, sel).n
      [] OTHER -> 0
TopLevel(e, o) ==
    {i \in 1..Len(e) : e[i] = o /\ Count(e, i, Open) = Count(e, i, Close)}
First(S) == CHOOSE i \in S : \A j \in S : i <= j
RECURSIVE Eval(_, _, _), EvalSplit(_, _, _, _)
EvalSplit(e, i, v, sel) ==
    IF e[i] = Plus
    THEN Eval(SubSeq(e, 1, i - 1), v, sel) + Eval(SubSeq(e, i + 1, Len(e)), v, sel)
    ELSE Eval(SubSeq(e, 1, i - 1), v, sel) * Eval(SubSeq(e, i + 1, Len(e)), v, sel)
Eval(e, v, sel) ==
    IF e = <<>> THEN 0
    ELSE IF TopLevel(e, Plus) # {} THEN EvalSplit(e, First(TopLevel(e, Plus)), v, sel)
    ELSE IF TopLevel(e, Times) # {} THEN EvalSplit(e, First(TopLevel(e, Times)), v, sel)
    ELSE IF e[1] = Open THEN Eval(SubSeq(e, 2, Len(e) - 1), v, sel)
    ELSE TokenValue(e[1], v, sel)

\* The piece that closes the block the piece at i opens.
Opens(o, i, j) == Cardinality({k \in i..j : o[k].op \in Branching})
Closes(o, i, j) == Cardinality({k \in i..j : o[k].op = "}"})
BlockEnd(o, i) ==
    First({j \in (i + 1)..Len(o) : Closes(o, i + 1, j) = Opens(o, i + 1, j) + 1})

\* Runs the pieces i..j on the instance v with the accumulator at s.
RECURSIVE Run(_, _, _, _, _, _), RunLoop(_, _, _, _, _, _, _, _, _)
RunBlock(o, i, c, j, s, v, sel) ==
    CASE o[i].op = "if nil else" ->
            IF ValueOf(o[i].v[1], v, sel).isnil
            THEN Run(o, c + 1, j, s + msgp_Size("Nil"), v, sel)
            ELSE Run(o, c + 1, j, Run(o, i + 1, c - 1, s, v, sel), v, sel)
      [] o[i].op = "if not nil" ->
            IF ValueOf(o[i].v[1], v, sel).isnil
            THEN Run(o, c + 1, j, s, v, sel)
            ELSE Run(o, c + 1, j, Run(o, i + 1, c - 1, s, v, sel), v, sel)
      [] o[i].op \in {"for", "for kv"} ->
            Run(o, c + 1, j,
                RunLoop(o, i + 1, c - 1, s, v, sel, o[i].v[Len(o[i].v)].path, 1,
                        Len(ValueOf(o[i].v[Len(o[i].v)], v, sel).kids)),
                v, sel)
RunLoop(o, i, j, s, v, sel, path, k, n) ==
    IF k > n THEN s
    ELSE RunLoop(o, i, j,
                 Run(o, i, j, s, v,
                     [p \in DOMAIN sel \cup {path} |-> IF p = path THEN k ELSE sel[p]]),
                 v, sel, path, k + 1, n)
Run(o, i, j, s, v, sel) ==
    IF i > j THEN s
    ELSE CASE o[i].op = "s =" -> Run(o, i + 1, j, Eval(o[i].e, v, sel), v, sel)
           [] o[i].op \in {"s +=", "+"} -> Run(o, i + 1, j, s + Eval(o[i].e, v, sel), v, sel)
           [] o[i].op \in Branching -> RunBlock(o, i, BlockEnd(o, i), j, s, v, sel)
           [] OTHER -> Run(o, i + 1, j, s, v, sel)
Msgsize(o, v) == Run(o, 1, Len(o), 0, v, <<>>)

\* The trees of the claim: leaves that are fixed-width primitives, strings
\* or bytes.
RECURSIVE Sized(_)
Sized(e) ==
    /\ e.kind = "BaseElem" => e.Value \in {"Int32", "Float64", "String", "Bytes"}
    /\ \A i \in 1..Len(e.Els) : Sized(e.Els[i])
    /\ \A i \in 1..Len(e.Fields) : Sized(e.Fields[i].fieldElem)

(* C13: the s that the emitted body computes for an instance of the tree   *)
(* is at least the number of bytes of the instance's encoding.             *)
C13_MsgsizeIsUpperBound ==
    (/\ Executed
     /\ ok(gen.p)
     /\ Sized(elem)
     /\ \A i \in 1..Len(out) : out[i].op \in RightHandSide => WellFormed(out[i].e))
        => \A v \in Instances(elem) : Msgsize(out, v) >= EncLen(elem, v)

============================================================================
